---- MODULE Spec2Model ----
(***************************************************************************)
(* A state-machine model of the ESCAPER episode engine:                    *)
(*   escaper/core/room.py     Room, RoomObject, Lock                       *)
(*   escaper/core/state.py    EnvState and its parts                       *)
(*   escaper/core/tools.py    the action handlers (the "Action Mediator")  *)
(*   escaper/core/agents.py   Agent.run_timestep (the "Turn Controller")   *)
(*   escaper/core/runner.py   SimulationRunner (the "Episode Scheduler")   *)
(*   escaper/core/metrics.py  EpisodeMetrics, MetricsAccumulator           *)
(*                                                                         *)
(* Conventions.  A Python str is a TLA+ string.  A formatted string        *)
(* (f"...") is the tuple of its literal and interpolated parts, so two     *)
(* texts are equal exactly when the Python strings are.  Optional[T] is a  *)
(* sequence of length 0 (None) or 1.  A dict is a function whose DOMAIN is *)
(* the set of keys.  A handler returns [env, raised, text]: the state it   *)
(* leaves behind, whether it raised, and the returned text (or, when it    *)
(* raised, the exception's type and message).                              *)
(***************************************************************************)
EXTENDS Integers, Sequences, FiniteSets, TLC

VARIABLES
    runner,     \* SimulationRunner: base_room, persona_configs, settings
    env,        \* the episode's EnvState
    last,       \* the most recent call made on the room or the mediator, and its outcome
    sched,      \* run_episode's position: pc, step, index of the agent in turn
    turn,       \* run_timestep's locals: iteration, tools_used, messages, summary
    metrics,    \* the episode's EpisodeMetrics
    acc         \* MetricsAccumulator.episodes

vars == <<runner, env, last, sched, turn, metrics, acc>>

----------------------------------------------------------------------------
(* Bounds of the model *)

\* settings.max_steps is drawn from 0..MaxSteps
MaxSteps == 2
\* the mediator-level specifications make at most MaxCalls handler calls
MaxCalls == 2
\* the accumulator specification records at most MaxEpisodes episodes
MaxEpisodes == 3

----------------------------------------------------------------------------
(* Python values *)

EmptyDict == <<>>

DictSet(d, k, v) == [x \in (DOMAIN d) \cup {k} |-> IF x = k THEN v ELSE d[x]]

DictGet(d, k, default) == IF k \in DOMAIN d THEN d[k] ELSE default

None == <<>>

Some(x) == <<x>>

\* str.lower() on the strings the model uses as identifiers and names
StrLower(s) ==
    CASE s = "Alice" -> "alice"
      [] s = "ALICE" -> "alice"
      [] s = "Bobby" -> "bobby"
      [] s = "BOB"   -> "bob"
      [] s = "Carol" -> "carol"
      [] OTHER       -> s

\* str.strip() on the same strings
StrStrip(s) ==
    CASE s = " bob " -> "bob"
      [] OTHER       -> s

----------------------------------------------------------------------------
(* room.py *)

Lock(password, on_success_text, on_failure_text, reveal_objects, escape) ==
    [password |-> password,
     on_success_text |-> on_success_text,
     on_failure_text |-> on_failure_text,
     reveal_objects |-> reveal_objects,
     escape |-> escape]

RoomObject(id, name, visible, inspect_text, lock) ==
    [id |-> id, name |-> name, visible |-> visible,
     inspect_text |-> inspect_text, lock |-> lock]

\* Room.from_json: the objects keyed by id, escaped left at its default False
Room_from_json(objs) ==
    [objects |-> [i \in {o.id : o \in objs} |-> CHOOSE o \in objs : o.id = i],
     escaped |-> FALSE]

\* Room.visible_objects
visible_objects(room) == {o \in DOMAIN room.objects : room.objects[o].visible}

\* Room.inspect_object
Room_inspect_object(room, object_id) ==
    IF object_id \notin DOMAIN room.objects
    THEN <<"There is no object with id", object_id>>
    ELSE LET obj == room.objects[object_id] IN
         IF obj.inspect_text # None /\ obj.inspect_text[1] # ""
         THEN <<obj.inspect_text[1]>>
         ELSE <<"You inspect the", obj.name, "but find nothing special.">>

\* the loop leaving after its first pass
RevealLoopFirstOnly(objects, oids) ==
    IF oids = <<>> \/ Head(oids) \notin DOMAIN objects THEN objects
    ELSE [objects EXCEPT ![Head(oids)].visible = TRUE]

\* the loop of room.py:99-101 over lock.reveal_objects
RECURSIVE RevealLoop(_, _)
RevealLoop(objects, oids) ==
    IF oids = <<>> THEN objects
    ELSE LET oid == Head(oids) IN
         RevealLoop(IF oid \in DOMAIN objects
                    THEN [objects EXCEPT ![oid].visible = TRUE]
                    ELSE objects,
                    Tail(oids))

\* escaped assigned from the lock's flag instead of only ever set
SetEscapedAssigns(escaped, lock) == lock.escape

\* room.py:102-103: if obj.lock.escape: self.escaped = True
SetEscaped(escaped, lock) == IF lock.escape THEN TRUE ELSE escaped

\* Room.try_password revealing the listed objects on a wrong guess too
Room_try_password_Lenient(room, object_id, password) ==
    IF object_id \notin DOMAIN room.objects
    THEN [room |-> room, text |-> <<"There is no object with id", object_id>>]
    ELSE LET obj == room.objects[object_id] IN
         IF obj.lock = None
         THEN [room |-> room,
               text |-> <<"The", obj.name, "does not seem to have any password lock.">>]
         ELSE LET lock == obj.lock[1] IN
              [room |-> [objects |-> RevealLoop(room.objects, lock.reveal_objects),
                         escaped |-> IF password = lock.password
                                     THEN SetEscaped(room.escaped, lock)
                                     ELSE room.escaped],
               text |-> IF password = lock.password
                        THEN <<lock.on_success_text>>
                        ELSE <<lock.on_failure_text>>]

\* Room.try_password: [room, text]
Room_try_password(room, object_id, password) ==
    IF object_id \notin DOMAIN room.objects
    THEN [room |-> room, text |-> <<"There is no object with id", object_id>>]
    ELSE LET obj == room.objects[object_id] IN
         IF obj.lock = None
         THEN [room |-> room,
               text |-> <<"The", obj.name, "does not seem to have any password lock.">>]
         ELSE LET lock == obj.lock[1] IN
              IF password = lock.password
              THEN [room |-> [objects |-> RevealLoop(room.objects, lock.reveal_objects),
                              escaped |-> SetEscaped(room.escaped, lock)],
                    text |-> <<lock.on_success_text>>]
              ELSE [room |-> room, text |-> <<lock.on_failure_text>>]

----------------------------------------------------------------------------
(* state.py *)

PublicMessage(sender, timestep, text) ==
    [sender |-> sender, timestep |-> timestep, text |-> text]

PrivateMessage(sender, timestep, text) ==
    [sender |-> sender, timestep |-> timestep, text |-> text]

PublicState(timestep) == [timestep |-> timestep, public_chat |-> <<>>]

AgentPrivateState(agent_id, reputation) ==
    [agent_id |-> agent_id,
     private_observations |-> <<>>,
     private_messages |-> <<>>,
     reputation |-> reputation]

\* EnvState(room, public_state, agent_states): the other fields take their
\* defaults.  attrs holds the instance attributes that are not dataclass
\* fields; the class declares no failed_passwords field, so a constructed
\* EnvState has none.
EnvState(room, public_state, agent_states) ==
    [room |-> room,
     public_state |-> public_state,
     agent_states |-> agent_states,
     wrong_password_attempts |-> 0,
     verbose_events |-> <<>>,
     agent_names |-> EmptyDict,
     attrs |-> EmptyDict]

hasattr(e, name) == name \in DOMAIN e.attrs

----------------------------------------------------------------------------
(* tools.py *)

Returned(e, text) == [env |-> e, raised |-> FALSE, text |-> text]

\* an exception leaves the handler: env is as the handler left it
Raised(e, exc) == [env |-> e, raised |-> TRUE, text |-> exc]

\* inspect_object logging only what it finds
inspect_object_KnownOnly(e, agent_id, object_id) ==
    LET text == Room_inspect_object(e.room, object_id) IN
    IF object_id \notin DOMAIN e.room.objects
    THEN Returned(e, text)
    ELSE Returned([e EXCEPT !.agent_states[agent_id].private_observations =
                      Append(@, [timestep |-> e.public_state.timestep,
                                 object_id |-> object_id,
                                 text |-> text])],
                  text)

\* inspect_object making the inspected object visible
inspect_object_Reveals(e, agent_id, object_id) ==
    LET text == Room_inspect_object(e.room, object_id) IN
    Returned([e EXCEPT !.agent_states[agent_id].private_observations =
                Append(@, [timestep |-> e.public_state.timestep,
                           object_id |-> object_id,
                           text |-> text]),
                       !.room.objects =
                           [o \in DOMAIN @ |->
                              IF o = object_id THEN [@[o] EXCEPT !.visible = TRUE]
                              ELSE @[o]]],
             text)

\* inspect_object
inspect_object(e, agent_id, object_id) ==
    LET text == Room_inspect_object(e.room, object_id) IN
    Returned([e EXCEPT !.agent_states[agent_id].private_observations =
                Append(@, [timestep |-> e.public_state.timestep,
                           object_id |-> object_id,
                           text |-> text])],
             text)

SkipText == <<"This password was already tried earlier on this object and failed; skipping repeat.">>

\* the retry block counting the repeated password as one more wrong attempt
SkipRepeatCounts(e, agent_id, object_id) ==
    Returned([e EXCEPT !.public_state.public_chat =
                Append(@, PublicMessage("system", e.public_state.timestep,
                    <<DictGet(e.agent_names, agent_id, agent_id),
                      "attempted a previously failed code on", object_id, ": skipped">>)),
                       !.wrong_password_attempts = @ + 1],
             SkipText)

\* tools.py:27-40, the retry block: the public notice and the skip text
SkipRepeat(e, agent_id, object_id) ==
    Returned([e EXCEPT !.public_state.public_chat =
                Append(@, PublicMessage("system", e.public_state.timestep,
                    <<DictGet(e.agent_names, agent_id, agent_id),
                      "attempted a previously failed code on", object_id, ": skipped">>))],
             SkipText)

\* tools.py:50-66: record the failed password, count it, queue the event
RecordFailure(e, agent_id, object_id, password) ==
    LET fp == e.attrs["failed_passwords"]
        n  == e.wrong_password_attempts + 1
    IN [e EXCEPT
          !.attrs = DictSet(@, "failed_passwords",
                            DictSet(fp, object_id, fp[object_id] \cup {password})),
          !.wrong_password_attempts = n,
          !.verbose_events =
              Append(@, [agent |-> DictGet(e.agent_names, agent_id, agent_id),
                         obj_name |-> e.room.objects[object_id].name,
                         object_id |-> object_id,
                         total |-> n])]

\* tools.py:71-82: the outcome notice, which does not carry the password
AnnounceOutcome(e, agent_id, object_id, outcome) ==
    IF outcome # "not-applicable"
    THEN [e EXCEPT !.public_state.public_chat =
            Append(@, PublicMessage("system", e.public_state.timestep,
                <<DictGet(e.agent_names, agent_id, agent_id),
                  "tried a password on", object_id, ":", outcome>>))]
    ELSE e

\* try_password
try_password(e, agent_id, object_id, password) ==
    IF ~hasattr(e, "failed_passwords")
    THEN \* tools.py:24 reads env.failed_passwords before anything is changed
         Raised(e, <<"AttributeError",
                     "'EnvState' object has no attribute 'failed_passwords'">>)
    ELSE
    LET has_obj  == object_id \in DOMAIN e.room.objects
        has_lock == has_obj /\ e.room.objects[object_id].lock # None
        fp0 == e.attrs["failed_passwords"]
        fp1 == IF object_id \notin DOMAIN fp0 THEN DictSet(fp0, object_id, {}) ELSE fp0
        e1  == [e EXCEPT !.attrs = DictSet(@, "failed_passwords", fp1)]
    IN
    IF has_lock /\ password \in fp1[object_id]
    THEN SkipRepeat(e1, agent_id, object_id)
    ELSE
    LET is_correct == has_lock /\ password = e.room.objects[object_id].lock[1].password
        reveals_objects ==
            is_correct /\ e.room.objects[object_id].lock[1].reveal_objects # <<>>
        r  == Room_try_password(e1.room, object_id, password)
        e2 == [e1 EXCEPT !.room = r.room]
        e3 == IF has_lock /\ ~is_correct
              THEN RecordFailure(e2, agent_id, object_id, password)
              ELSE e2
        outcome == IF has_lock /\ is_correct THEN "success"
                   ELSE IF has_lock THEN "failure" ELSE "not-applicable"
        e4 == AnnounceOutcome(e3, agent_id, object_id, outcome)
        e5 == IF reveals_objects /\ hasattr(e, "_verbose_event")
              THEN [e4 EXCEPT !.attrs = DictSet(@, "_verbose_event",
                       <<"Door", e.room.objects[object_id].name, "opened! Revealed:">>)]
              ELSE e4
    IN Returned(e5, r.text)

\* send_public putting the new message at the head of the chat
send_public_Prepends(e, agent_id, message) ==
    Returned([e EXCEPT !.public_state.public_chat =
                <<PublicMessage(DictGet(e.agent_names, agent_id, agent_id),
                                e.public_state.timestep, <<message>>)>> \o @],
             <<"Message posted to public chat.">>)

\* send_public
send_public(e, agent_id, message) ==
    Returned([e EXCEPT !.public_state.public_chat =
                Append(@, PublicMessage(DictGet(e.agent_names, agent_id, agent_id),
                                        e.public_state.timestep, <<message>>))],
             <<"Message posted to public chat.">>)

\* {aid.lower(): aid for aid in env.agent_states.keys()}
\* (the model's agent ids differ in more than letter case)
id_by_lower(e) ==
    [k \in {StrLower(a) : a \in DOMAIN e.agent_states} |->
        CHOOSE a \in DOMAIN e.agent_states : StrLower(a) = k]

\* {name.lower(): aid for aid, name in env.agent_names.items()}
\* (the model's display names differ in more than letter case)
name_by_lower(e) ==
    [k \in {StrLower(e.agent_names[a]) : a \in DOMAIN e.agent_names} |->
        CHOOSE a \in DOMAIN e.agent_names : StrLower(e.agent_names[a]) = k]

\* the lookup both send_private and update_reputation make for one label:
\* strip, lower, agent ids first, then display names; None when unknown
resolve(e, raw) ==
    LET lower == StrLower(StrStrip(raw)) IN
    IF lower \in DOMAIN id_by_lower(e) THEN Some(id_by_lower(e)[lower])
    ELSE IF lower \in DOMAIN name_by_lower(e) THEN Some(name_by_lower(e)[lower])
    ELSE None

\* send_private delivering one copy for every entry of recipients that
\* resolves, instead of one for every resolved agent
send_private_PerEntry(e, agent_id, recipients, message) ==
    LET display == DictGet(e.agent_names, agent_id, agent_id)
        msg == PrivateMessage(display, e.public_state.timestep, <<message>>)
        copies(rid) == Cardinality({j \in 1..Len(recipients) :
                                       resolve(e, recipients[j]) = Some(rid)})
    IN Returned([e EXCEPT !.agent_states =
                    [rid \in DOMAIN e.agent_states |->
                        [e.agent_states[rid] EXCEPT !.private_messages =
                            @ \o [k \in 1..copies(rid) |-> msg]]]],
                <<"Private message sent.">>)

\* send_private delivering to every agent, whatever the recipients
send_private_Broadcast(e, agent_id, recipients, message) ==
    Returned([e EXCEPT !.agent_states =
                    [rid \in DOMAIN e.agent_states |->
                        [e.agent_states[rid] EXCEPT !.private_messages =
                            Append(@, PrivateMessage(DictGet(e.agent_names, agent_id, agent_id),
                                                     e.public_state.timestep, <<message>>))]]],
             <<"Private message sent.">>)

\* send_private
send_private(e, agent_id, recipients, message) ==
    LET display == DictGet(e.agent_names, agent_id, agent_id)
        resolved_ids == {resolve(e, recipients[i])[1] :
                            i \in {j \in 1..Len(recipients) : resolve(e, recipients[j]) # None}}
    IN Returned([e EXCEPT !.agent_states =
                    [rid \in DOMAIN e.agent_states |->
                        IF rid \in resolved_ids
                        THEN [e.agent_states[rid] EXCEPT !.private_messages =
                                Append(@, PrivateMessage(display, e.public_state.timestep,
                                                         <<message>>))]
                        ELSE e.agent_states[rid]]],
                <<"Private message sent.">>)

\* a score as the oracle's JSON gives it: a number, or a string
Num(n) == [kind |-> "num", num |-> n, str |-> ""]
Str(s) == [kind |-> "str", num |-> 0, str |-> s]

\* float(score): None stands for the ValueError a non-numeric string raises
PyFloat(score) ==
    IF score.kind = "num" THEN Some(score.num)
    ELSE CASE score.str = "2" -> Some(2)
           [] OTHER -> None

\* the loop without the self-reputation test of tools.py:165-167
RECURSIVE UpdateLoopKeepsSelf(_, _, _, _)
UpdateLoopKeepsSelf(e, agent_id, rep, items) ==
    IF items = <<>> THEN [rep |-> rep, raised |-> FALSE]
    ELSE LET raw_target == Head(items)[1]
             score == Head(items)[2]
             target == resolve(e, raw_target)
         IN IF target = None THEN UpdateLoopKeepsSelf(e, agent_id, rep, Tail(items))
            ELSE IF PyFloat(score) = None THEN [rep |-> rep, raised |-> TRUE]
            ELSE UpdateLoopKeepsSelf(e, agent_id,
                                     DictSet(rep, target[1], PyFloat(score)[1]),
                                     Tail(items))

\* the loop with the new score averaged into the entry it finds
RECURSIVE UpdateLoopAverages(_, _, _, _)
UpdateLoopAverages(e, agent_id, rep, items) ==
    IF items = <<>> THEN [rep |-> rep, raised |-> FALSE]
    ELSE LET raw_target == Head(items)[1]
             score == Head(items)[2]
             target == resolve(e, raw_target)
         IN IF target = None THEN UpdateLoopAverages(e, agent_id, rep, Tail(items))
            ELSE IF target[1] = agent_id THEN UpdateLoopAverages(e, agent_id, rep, Tail(items))
            ELSE IF PyFloat(score) = None THEN [rep |-> rep, raised |-> TRUE]
            ELSE UpdateLoopAverages(e, agent_id,
                    DictSet(rep, target[1],
                            (DictGet(rep, target[1], PyFloat(score)[1]) + PyFloat(score)[1]) \div 2),
                    Tail(items))

\* the loop of tools.py:152-169 over updates.items(): [rep, raised]
RECURSIVE UpdateLoop(_, _, _, _)
UpdateLoop(e, agent_id, rep, items) ==
    IF items = <<>> THEN [rep |-> rep, raised |-> FALSE]
    ELSE LET raw_target == Head(items)[1]
             score == Head(items)[2]
             target == resolve(e, raw_target)
         IN IF target = None THEN UpdateLoop(e, agent_id, rep, Tail(items))
            ELSE IF target[1] = agent_id THEN UpdateLoop(e, agent_id, rep, Tail(items))
            ELSE IF PyFloat(score) = None THEN [rep |-> rep, raised |-> TRUE]
            ELSE UpdateLoop(e, agent_id, DictSet(rep, target[1], PyFloat(score)[1]),
                            Tail(items))

\* `not updates`: None or an empty dict
IsNoOp(updates) == updates = None \/ updates[1] = <<>>

\* update_reputation without the `if not updates` guard: None has no items()
update_reputation_NoGuard(e, agent_id, updates) ==
    IF updates = None
    THEN Raised(e, <<"AttributeError", "'NoneType' object has no attribute 'items'">>)
    ELSE LET r == UpdateLoop(e, agent_id, e.agent_states[agent_id].reputation, updates[1])
         IN Returned([e EXCEPT !.agent_states[agent_id].reputation = r.rep],
                     <<"Reputation updated.">>)

\* update_reputation putting the caller's map back as it was when an entry
\* raises
update_reputation_Atomic(e, agent_id, updates) ==
    IF IsNoOp(updates)
    THEN Returned(e, <<"No reputation changes applied.">>)
    ELSE LET r  == UpdateLoop(e, agent_id, e.agent_states[agent_id].reputation, updates[1])
             e1 == [e EXCEPT !.agent_states[agent_id].reputation = r.rep]
         IN IF r.raised
            THEN Raised(e, <<"ValueError", "could not convert string to float">>)
            ELSE Returned(e1, <<"Reputation updated.">>)

\* update_reputation; updates is None or Some(<<target, score>> pairs in dict order)
update_reputation(e, agent_id, updates) ==
    IF IsNoOp(updates)
    THEN Returned(e, <<"No reputation changes applied.">>)
    ELSE LET r  == UpdateLoop(e, agent_id, e.agent_states[agent_id].reputation, updates[1])
             e1 == [e EXCEPT !.agent_states[agent_id].reputation = r.rep]
         IN IF r.raised
            THEN Raised(e1, <<"ValueError", "could not convert string to float">>)
            ELSE Returned(e1, <<"Reputation updated.">>)

\* a dispatch table that ignores the configuration
get_tool_dispatch_All(gossip_enabled, reputation_enabled) ==
    {"inspect_object", "try_password", "send_public", "send_private", "update_reputation"}

\* get_tool_dispatch: the names of the dispatchable handlers
get_tool_dispatch(gossip_enabled, reputation_enabled) ==
    {"inspect_object", "try_password", "send_public"}
        \cup (IF gossip_enabled THEN {"send_private"} ELSE {})
        \cup (IF reputation_enabled THEN {"update_reputation"} ELSE {})

----------------------------------------------------------------------------
(* runner.py: the runner and the state it gives an episode *)

\* AgentConfig: role_description, is_malicious and malice_style only select
\* prompt text and are left out
AgentConfig(agent_id, name) == [agent_id |-> agent_id, name |-> name]

\* ExperimentSettings: adversary_enabled only reaches the prompt and is left out
ExperimentSettings(reputation_enabled, gossip_enabled, max_steps) ==
    [reputation_enabled |-> reputation_enabled,
     gossip_enabled |-> gossip_enabled,
     max_steps |-> max_steps]

\* SimulationRunner.__init__
SimulationRunner(room, persona_configs, settings) ==
    [base_room |-> room, persona_configs |-> persona_configs, settings |-> settings]

AgentIds(r) == {r.persona_configs[i].agent_id : i \in 1..Len(r.persona_configs)}

\* init_env_state seeding a score toward the holder too
init_env_state_SelfEntry(r) ==
    EnvState(r.base_room,
             PublicState(0),
             [a \in AgentIds(r) |->
                AgentPrivateState(a,
                    IF r.settings.reputation_enabled
                    THEN [other \in AgentIds(r) |-> 1]
                    ELSE EmptyDict)])

\* SimulationRunner.init_env_state: a deep copy of the base room, timestep 0,
\* and for each persona a private state whose reputation map is neutral (1.0)
\* toward every other persona when reputation tracking is on, empty otherwise
init_env_state(r) ==
    EnvState(r.base_room,
             PublicState(0),
             [a \in AgentIds(r) |->
                AgentPrivateState(a,
                    IF r.settings.reputation_enabled
                    THEN [other \in AgentIds(r) \ {a} |-> 1]
                    ELSE EmptyDict)])

----------------------------------------------------------------------------
(* Inputs: rooms, personas, and the arguments calls are made with *)

Door(reveal_objects, escape) ==
    RoomObject("door", "Side Door", TRUE, None,
               Some(Lock("1234", "The door swings open.", "The keypad beeps: wrong code.",
                         reveal_objects, escape)))

Box(lock) == RoomObject("box", "Key Box", FALSE, Some("A small metal box."), lock)

BoxLock(reveal_objects, escape) ==
    Some(Lock("abcd", "The box clicks open.", "The box stays shut.", reveal_objects, escape))

Poster(visible) == RoomObject("poster", "Poster", visible, None, None)

\* rooms for the room-level specification
RoomInputs ==
    {Room_from_json({Door(rv, esc), Box(bl), Poster(pv)}) :
        rv \in {<<>>, <<"box">>, <<"box", "ghost", "poster">>},
        esc \in BOOLEAN,
        bl \in {None, BoxLock(<<>>, TRUE), BoxLock(<<"poster">>, FALSE)},
        pv \in BOOLEAN}

\* a two-stage room: the door reveals the box (and names an object that does
\* not exist), the box is the way out and lists the already visible poster
TwoStageRoom ==
    Room_from_json({Door(<<"box", "ghost">>, FALSE), Box(BoxLock(<<"poster">>, TRUE)),
                    Poster(TRUE)})

Personas == <<AgentConfig("alice", "Alice"), AgentConfig("bob", "Bobby")>>

ObjectInputs == {"door", "box", "poster", "ghost"}

PasswordInputs == {"1234", "abcd", "ABCD"}

MessageInputs == {"hello"}

RecipientInputs ==
    {<<>>, <<"bob">>, <<"Bobby">>, <<"BOB", " bob ", "Bobby">>, <<"alice", "nobody">>}

UpdateInputs ==
    {None, Some(<<>>),
     Some(<<<<"alice", Num(5)>>, <<"bob", Num(0)>>>>),
     Some(<<<<"ALICE", Num(2)>>, <<"Bobby", Num(3)>>>>),
     Some(<<<<" bob ", Str("2")>>, <<"nobody", Num(4)>>>>),
     Some(<<<<"bob", Num(1)>>, <<"Bobby", Num(3)>>>>)}

----------------------------------------------------------------------------
(* Calls made directly on the room and on the handlers *)

NoCall ==
    [op |-> "", agent_id |-> "", object_id |-> "", password |-> "",
     recipients |-> <<>>, updates |-> None, message |-> "",
     raised |-> FALSE, text |-> <<>>, calls |-> 0]

\* not inside run_episode: calls are made directly
\* (turns_started, order and finalize_calls record what has run so far)
\* seeds: the seeds run_many has still to run, None outside run_many
\* seed: the seed argument of the run_episode call
\* trace: the (timestep, agent, action) steps of the episode so far, when
\* they are being recorded, None when they are not
Idle ==
    [pc |-> "direct", step |-> 0, agent_idx |-> 0, turns_started |-> 0,
     order |-> <<>>, finalize_calls |-> 0, seeds |-> None, seed |-> 0,
     trace |-> None]

\* no run_timestep frame
NoTurn ==
    [iteration |-> 0, tools_used |-> {}, messages |-> [len |-> 0, tail |-> <<>>],
     handler_runs |-> EmptyDict, reply |-> "", summary |-> <<>>]

\* MetricsAccumulator(): no episodes; report is what the latest summary()
\* call returned, None before any
NoEpisodes == [episodes |-> <<>>, report |-> None]

\* EpisodeMetrics()
EpisodeMetrics ==
    [summaries |-> <<>>, success |-> FALSE, steps_taken |-> 0,
     wrong_password_attempts |-> 0, final_reputation_scores |-> EmptyDict,
     reputation_enabled |-> FALSE]

\* room.try_password(object_id, password) on the episode's room
RoomTryPassword(object_id, password) ==
    /\ sched.pc = "direct"
    /\ LET r == Room_try_password(env.room, object_id, password) IN
       /\ env' = [env EXCEPT !.room = r.room]
       /\ last' = [NoCall EXCEPT !.op = "Room.try_password", !.object_id = object_id,
                                 !.password = password, !.text = r.text]
    /\ UNCHANGED <<runner, sched, turn, metrics, acc>>

\* room.inspect_object(object_id) on the episode's room
RoomInspectObject(object_id) ==
    /\ sched.pc = "direct"
    /\ last' = [NoCall EXCEPT !.op = "Room.inspect_object", !.object_id = object_id,
                              !.text = Room_inspect_object(env.room, object_id)]
    /\ UNCHANGED <<runner, env, sched, turn, metrics, acc>>

\* what a direct handler call leaves: the handler's state and its outcome
Direct(call, r) ==
    /\ sched.pc = "direct"
    /\ last.calls < MaxCalls
    /\ env' = r.env
    /\ last' = [call EXCEPT !.raised = r.raised, !.text = r.text, !.calls = last.calls + 1]
    /\ UNCHANGED <<runner, sched, turn, metrics, acc>>

CallInspectObject(agent_id, object_id) ==
    Direct([NoCall EXCEPT !.op = "inspect_object", !.agent_id = agent_id,
                          !.object_id = object_id],
           inspect_object(env, agent_id, object_id))

CallTryPassword(agent_id, object_id, password) ==
    Direct([NoCall EXCEPT !.op = "try_password", !.agent_id = agent_id,
                          !.object_id = object_id, !.password = password],
           try_password(env, agent_id, object_id, password))

CallSendPublic(agent_id, message) ==
    Direct([NoCall EXCEPT !.op = "send_public", !.agent_id = agent_id,
                          !.message = message],
           send_public(env, agent_id, message))

CallSendPrivate(agent_id, recipients, message) ==
    Direct([NoCall EXCEPT !.op = "send_private", !.agent_id = agent_id,
                          !.recipients = recipients, !.message = message],
           send_private(env, agent_id, recipients, message))

CallUpdateReputation(agent_id, updates) ==
    Direct([NoCall EXCEPT !.op = "update_reputation", !.agent_id = agent_id,
                          !.updates = updates],
           update_reputation(env, agent_id, updates))

----------------------------------------------------------------------------
(* SpecRoom: a loaded room and calls of its two methods *)

InitRoom ==
    /\ runner \in {SimulationRunner(room, Personas, ExperimentSettings(FALSE, FALSE, 0)) :
                      room \in RoomInputs}
    /\ env = init_env_state(runner)
    /\ last = NoCall
    /\ sched = Idle
    /\ turn = NoTurn
    /\ metrics = EpisodeMetrics
    /\ acc = NoEpisodes

NextRoom ==
    \/ \E o \in ObjectInputs, p \in PasswordInputs : RoomTryPassword(o, p)
    \/ \E o \in ObjectInputs : RoomInspectObject(o)

SpecRoom == InitRoom /\ [][NextRoom]_vars

----------------------------------------------------------------------------
(* SpecTools: the handlers called, by any agent and in any order, on the    *)
(* state init_env_state builds (in timestep 0 or 1).  SpecToolsFP: the same calls on a state     *)
(* that in addition carries the failed_passwords mapping try_password       *)
(* reads, initially empty, and optionally the display names.                *)

DisplayNames(r) ==
    [a \in AgentIds(r) |->
        r.persona_configs[CHOOSE i \in 1..Len(r.persona_configs) :
                              r.persona_configs[i].agent_id = a].name]

NextTools ==
    \/ \E a \in AgentIds(runner), o \in ObjectInputs : CallInspectObject(a, o)
    \/ \E a \in AgentIds(runner), o \in ObjectInputs, p \in PasswordInputs :
          CallTryPassword(a, o, p)
    \/ \E a \in AgentIds(runner), m \in MessageInputs : CallSendPublic(a, m)
    \/ \E a \in AgentIds(runner), rs \in RecipientInputs, m \in MessageInputs :
          CallSendPrivate(a, rs, m)
    \/ \E a \in AgentIds(runner), u \in UpdateInputs : CallUpdateReputation(a, u)

InitTools ==
    /\ runner \in {SimulationRunner(TwoStageRoom, Personas, ExperimentSettings(rep, TRUE, 0)) :
                      rep \in BOOLEAN}
    /\ env \in {[init_env_state(runner) EXCEPT !.public_state.timestep = step] :
                 step \in 0..1}
    /\ last = NoCall
    /\ sched = Idle
    /\ turn = NoTurn
    /\ metrics = EpisodeMetrics
    /\ acc = NoEpisodes

SpecTools == InitTools /\ [][NextTools]_vars

InitToolsFP ==
    /\ runner \in {SimulationRunner(TwoStageRoom, Personas, ExperimentSettings(rep, TRUE, 0)) :
                      rep \in BOOLEAN}
    /\ env \in {[init_env_state(runner) EXCEPT
                    !.attrs = DictSet(@, "failed_passwords", EmptyDict),
                    !.agent_names = names] :
                 names \in {EmptyDict, DisplayNames(runner)}}
    /\ last = NoCall
    /\ sched = Idle
    /\ turn = NoTurn
    /\ metrics = EpisodeMetrics
    /\ acc = NoEpisodes

SpecToolsFP == InitToolsFP /\ [][NextTools]_vars

----------------------------------------------------------------------------
(* metrics.py *)

\* the summary put in front of the earlier ones
log_summary_Prepends(m, agent_id, step, summary) ==
    [m EXCEPT !.summaries =
        <<[step |-> step, agent_id |-> agent_id, summary |-> summary]>> \o @]

\* EpisodeMetrics.log_summary
log_summary(m, agent_id, step, summary) ==
    [m EXCEPT !.summaries =
        Append(@, [step |-> step, agent_id |-> agent_id, summary |-> summary])]

\* update_step without the + 1
update_step_Index(m, e) == [m EXCEPT !.steps_taken = e.public_state.timestep]

\* EpisodeMetrics.update_step
update_step(m, e) == [m EXCEPT !.steps_taken = e.public_state.timestep + 1]

\* the scores the other agents hold for target, as a bag: score -> how many
ScoresFor(e, target) ==
    LET holders == {o \in DOMAIN e.agent_states :
                        o # target /\ target \in DOMAIN e.agent_states[o].reputation}
    IN [v \in {e.agent_states[o].reputation[target] : o \in holders} |->
            Cardinality({o \in holders : e.agent_states[o].reputation[target] = v})]

RECURSIVE BagSum(_)
BagSum(b) ==
    IF DOMAIN b = {} THEN 0
    ELSE LET v == CHOOSE x \in DOMAIN b : TRUE IN
         v * b[v] + BagSum([x \in DOMAIN b \ {v} |-> b[x]])

RECURSIVE BagSize(_)
BagSize(b) ==
    IF DOMAIN b = {} THEN 0
    ELSE LET v == CHOOSE x \in DOMAIN b : TRUE IN
         b[v] + BagSize([x \in DOMAIN b \ {v} |-> b[x]])

\* a / b, kept as the exact fraction
Div(a, b) == [num |-> a, den |-> b]

\* finalize without the assignment of metrics.py:28
finalizeKeepsSuccess(m, e, reputation_enabled) ==
    [m EXCEPT !.reputation_enabled = reputation_enabled,
              !.wrong_password_attempts = e.wrong_password_attempts]

\* EpisodeMetrics.finalize(env_state, reputation_enabled=False)
finalize(m, e, reputation_enabled) ==
    [m EXCEPT
       !.success = e.room.escaped,
       !.reputation_enabled = reputation_enabled,
       !.final_reputation_scores =
           IF reputation_enabled
           THEN [t \in {a \in DOMAIN e.agent_states : DOMAIN ScoresFor(e, a) # {}} |->
                    Div(BagSum(ScoresFor(e, t)), BagSize(ScoresFor(e, t)))]
           ELSE @,
       !.wrong_password_attempts = e.wrong_password_attempts]

\* MetricsAccumulator.add
add(episodes, ep) == Append(episodes, ep)

\* every episode taken for a successful one
SuccessfulAll(episodes) == episodes

\* [e for e in self.episodes if e.success]
Successful(episodes) == SelectSeq(episodes, LAMBDA e : e.success)

\* sum(e.steps_taken for e in episodes)
RECURSIVE SumSteps(_)
SumSteps(episodes) ==
    IF episodes = <<>> THEN 0 ELSE Head(episodes).steps_taken + SumSteps(Tail(episodes))

\* sum(scores) for a list of fractions
RECURSIVE SumFractions(_)
SumFractions(scores) ==
    IF scores = <<>> THEN Div(0, 1)
    ELSE LET h == Head(scores)
             t == SumFractions(Tail(scores))
         IN Div(h.num * t.den + t.num * h.den, h.den * t.den)

\* metrics.py:83-101: the per-agent mean of final_reputation_scores over the
\* episodes that have a value for the agent
avg_final_reputation(episodes) ==
    IF \E i \in 1..Len(episodes) : episodes[i].reputation_enabled
    THEN LET all_agent_ids ==
                 UNION {DOMAIN episodes[i].final_reputation_scores : i \in 1..Len(episodes)}
             Having(a) == SelectSeq(episodes, LAMBDA e : a \in DOMAIN e.final_reputation_scores)
             Scores(a) == [i \in 1..Len(Having(a)) |-> Having(a)[i].final_reputation_scores[a]]
         IN [a \in all_agent_ids |->
                Div(SumFractions(Scores(a)).num,
                    SumFractions(Scores(a)).den * Len(Scores(a)))]
    ELSE EmptyDict

\* MetricsAccumulator.summary: the dict it returns
summary(episodes) ==
    LET n == Len(episodes) IN
    IF n = 0
    THEN [num_episodes |-> 0,
          success_rate |-> Div(0, 1),
          avg_steps_if_success |-> Div(0, 1),
          avg_final_reputation |-> EmptyDict]
    ELSE LET success_count == Len(SelectSeq(episodes, LAMBDA e : e.success))
             successful_episodes == Successful(episodes)
         IN [num_episodes |-> n,
             success_rate |-> Div(success_count, n),
             avg_steps_if_success |->
                 IF successful_episodes # <<>>
                 THEN Div(SumSteps(successful_episodes), Len(successful_episodes))
                 ELSE Div(0, 1),
             avg_final_reputation |-> avg_final_reputation(episodes),
             reputation_enabled |->
                 \E i \in 1..Len(episodes) : episodes[i].reputation_enabled]

----------------------------------------------------------------------------
(* agents.py: Agent.run_timestep *)

\* max_iterations = 10
max_iterations == 10

\* the loop test with <= for <
LoopGuardOffByOne(iteration) == iteration <= max_iterations

\* while iteration < max_iterations
LoopGuard(iteration) == iteration < max_iterations

\* the request is executed without being marked as used
MarkUsedForgets(tools_used, tool_name) == tools_used

\* tools_used.add(tool_name)
MarkUsed(tools_used, tool_name) == tools_used \cup {tool_name}

\* the except branch taking the name out of tools_used again
ExceptUnmarks(tools_used, tool_name, raised) ==
    IF raised THEN tools_used \ {tool_name} ELSE tools_used

\* agents.py:344-347: tools_used after the try statement; the except branch
\* sets result_text only, so the name added before the call stays
ExceptKeeps(tools_used, tool_name, raised) == tools_used

NoArgs == <<>>

TypeError(tool_name) == <<"TypeError", tool_name, "got unexpected or missing arguments">>

\* tool_dispatch[tool_name](env_state, self.config.agent_id, **args):
\* a name outside the dispatch table is a KeyError, keyword arguments that do
\* not fit the handler's signature are a TypeError
Dispatch(dispatch, tool_name, e, agent_id, args) ==
    IF tool_name \notin dispatch THEN Raised(e, <<"KeyError", tool_name>>)
    ELSE CASE tool_name = "inspect_object" ->
                IF DOMAIN args = {"object_id"}
                THEN inspect_object(e, agent_id, args.object_id)
                ELSE Raised(e, TypeError(tool_name))
           [] tool_name = "try_password" ->
                IF DOMAIN args = {"object_id", "password"}
                THEN try_password(e, agent_id, args.object_id, args.password)
                ELSE Raised(e, TypeError(tool_name))
           [] tool_name = "send_public" ->
                IF DOMAIN args = {"message"}
                THEN send_public(e, agent_id, args.message)
                ELSE Raised(e, TypeError(tool_name))
           [] tool_name = "send_private" ->
                IF DOMAIN args = {"recipients", "message"}
                THEN send_private(e, agent_id, args.recipients, args.message)
                ELSE Raised(e, TypeError(tool_name))
           [] tool_name = "update_reputation" ->
                IF DOMAIN args \subseteq {"updates"}
                THEN update_reputation(e, agent_id, DictGet(args, "updates", None))
                ELSE Raised(e, TypeError(tool_name))

\* messages.append(...): the conversation is only appended to and only the
\* oracle reads it, and the oracle is left free; the model keeps its length
\* and the entries the latest pass of the loop appended
Appended(messages, entries) ==
    [len |-> messages.len + Len(entries), tail |-> entries]

Message(role, content) == [role |-> role, content |-> content]

AlreadyUsedNotice(tool_name) ==
    Message("assistant", <<"I already used the tool", tool_name, "this timestep.">>)

ReputationReminder ==
    Message("assistant", <<"Before ending this timestep, you MUST call the tool update_reputation">>)

FallbackSummary(name) ==
    <<"Agent", name, "reached max iterations without providing summary.">>

\* the personas taken in reverse when the seed is odd
TurnOrderSeeded(persona_configs, seed) ==
    IF seed % 2 = 1
    THEN [i \in 1..Len(persona_configs) |->
             persona_configs[Len(persona_configs) + 1 - i]]
    ELSE persona_configs

\* runner.py:114, for cfg in self.persona_configs: the order of the turns
\* of a timestep; the seed is not read (runner.py:83)
TurnOrder(persona_configs, seed) == persona_configs

\* the persona whose turn it is
Current == TurnOrder(runner.persona_configs, sched.seed)[sched.agent_idx]

\* the step the loop has just taken, added to the recorded steps
Traced(s, action) ==
    IF s.trace = None THEN s
    ELSE [s EXCEPT !.trace = Some(Append(@[1],
                      <<env.public_state.timestep, Current.agent_id, action>>))]

ToolDispatch ==
    get_tool_dispatch(runner.settings.gossip_enabled, runner.settings.reputation_enabled)

\* agents.py:303-318: the locals of a new run_timestep frame, the system
\* prompt and the user prompt already in the conversation
NewTurn ==
    [iteration |-> 0, tools_used |-> {},
     messages |-> [len |-> 2,
                   tail |-> <<Message("system", <<"system prompt">>),
                              Message("user", <<"user prompt">>)>>],
     handler_runs |-> EmptyDict, reply |-> "", summary |-> <<>>]

\* the try/except of agents.py:344-347 without its except branch's text
ResultTextBare(tool_name, r) == r.text

\* agents.py:344-347: the handler's return value, or the text the except
\* branch makes of the exception
ResultText(tool_name, r) ==
    IF r.raised THEN <<"Error executing", tool_name, ":">> \o r.text ELSE r.text

\* the final statement is accepted whatever was requested before it
MustUpdateFirstNever(reputation_enabled, dispatch, tools_used) == FALSE

\* agents.py:360-364: a final statement is not yet accepted
MustUpdateFirst(reputation_enabled, dispatch, tools_used) ==
    /\ reputation_enabled
    /\ "update_reputation" \in dispatch
    /\ "update_reputation" \notin tools_used

\* an exception leaving llm.call_with_tools is caught and the turn ends
UncaughtReturns == "returned"

\* where control goes when llm.call_with_tools raises: neither run_timestep
\* (agents.py:324-326) nor run_episode (runner.py:135-141) has a handler
\* around the call, so the exception leaves run_episode
Uncaught == "aborted"

\* one pass of the loop in which llm.call_with_tools raises
OracleRaises ==
    /\ sched.pc = "turn"
    /\ LoopGuard(turn.iteration)
    /\ turn' = [turn EXCEPT !.iteration = @ + 1, !.reply = "raise"]
    /\ sched' = [Traced(sched, "raise") EXCEPT !.pc = Uncaught]
    /\ UNCHANGED <<runner, env, last, metrics, acc>>

\* one pass of the loop in which the oracle requests a tool (agents.py:324-357)
OracleTool(tool_name, args) ==
    /\ sched.pc = "turn"
    /\ LoopGuard(turn.iteration)
    /\ IF tool_name \in turn.tools_used
       THEN /\ turn' = [turn EXCEPT
                          !.iteration = @ + 1,
                          !.reply = "tool",
                          !.messages = Appended(@, <<AlreadyUsedNotice(tool_name)>>)]
            /\ UNCHANGED <<env, last>>
       ELSE LET r == Dispatch(ToolDispatch, tool_name, env, Current.agent_id, args)
                result_text == ResultText(tool_name, r)
            IN /\ env' = r.env
               /\ turn' = [turn EXCEPT
                             !.iteration = @ + 1,
                             !.reply = "tool",
                             !.tools_used = ExceptKeeps(MarkUsed(@, tool_name),
                                                        tool_name, r.raised),
                             !.handler_runs = DictSet(@, tool_name,
                                                      DictGet(@, tool_name, 0) + 1),
                             !.messages = Appended(@,
                                 <<Message("assistant", <<"Called", tool_name, "with args">>),
                                   Message("user", <<"Tool result:">> \o result_text)>>)]
               /\ last' = [NoCall EXCEPT
                             !.op = tool_name,
                             !.agent_id = Current.agent_id,
                             !.object_id = DictGet(args, "object_id", ""),
                             !.password = DictGet(args, "password", ""),
                             !.recipients = DictGet(args, "recipients", <<>>),
                             !.updates = DictGet(args, "updates", None),
                             !.message = DictGet(args, "message", ""),
                             !.raised = r.raised,
                             !.text = r.text]
    /\ sched' = Traced(sched, tool_name)
    /\ UNCHANGED <<runner, metrics, acc>>

\* one pass of the loop in which the oracle gives a final statement
\* (agents.py:359-376)
OracleAssistant(content) ==
    /\ sched.pc = "turn"
    /\ LoopGuard(turn.iteration)
    /\ IF MustUpdateFirst(runner.settings.reputation_enabled, ToolDispatch, turn.tools_used)
       THEN /\ turn' = [turn EXCEPT
                          !.iteration = @ + 1,
                          !.reply = "assistant",
                          !.messages = Appended(@, <<ReputationReminder>>)]
            /\ sched' = Traced(sched, "final")
       ELSE /\ turn' = [turn EXCEPT !.iteration = @ + 1, !.reply = "assistant",
                                    !.summary = <<content>>]
            /\ sched' = [Traced(sched, "final") EXCEPT !.pc = "returned"]
    /\ UNCHANGED <<runner, env, last, metrics, acc>>

\* the loop ends without a final statement (agents.py:378-379)
TurnFallback ==
    /\ sched.pc = "turn"
    /\ ~LoopGuard(turn.iteration)
    /\ turn' = [turn EXCEPT !.summary = FallbackSummary(Current.name)]
    /\ sched' = [sched EXCEPT !.pc = "returned"]
    /\ UNCHANGED <<runner, env, last, metrics, acc>>

----------------------------------------------------------------------------
(* runner.py: SimulationRunner.run_episode, without a verbose logger *)

\* range(self.settings.max_steps) reaching one step too far
InRangeOffByOne(step, max_steps) == step <= max_steps

\* for step in range(self.settings.max_steps)
InRange(step, max_steps) == step < max_steps

\* runner.py:102-106: the next timestep begins, unless the room is escaped
StepBegin ==
    /\ sched.pc = "for_step"
    /\ InRange(sched.step, runner.settings.max_steps)
    /\ env' = [env EXCEPT !.public_state.timestep = sched.step]
    /\ sched' = IF env.room.escaped
                THEN [sched EXCEPT !.pc = "finalize"]
                ELSE [sched EXCEPT !.pc = "for_agent", !.agent_idx = 1]
    /\ UNCHANGED <<runner, last, turn, metrics, acc>>

\* the range is exhausted
StepsExhausted ==
    /\ sched.pc = "for_step"
    /\ ~InRange(sched.step, runner.settings.max_steps)
    /\ sched' = [sched EXCEPT !.pc = "finalize"]
    /\ UNCHANGED <<runner, env, last, turn, metrics, acc>>

\* the inner loop without the escape test of runner.py:115-116
BeginTurnAfterEscape ==
    /\ sched.pc = "for_agent"
    /\ sched.agent_idx <= Len(runner.persona_configs)
    /\ turn' = NewTurn
    /\ last' = NoCall
    /\ sched' = [sched EXCEPT !.pc = "turn", !.turns_started = @ + 1,
                              !.order = Append(@, <<sched.step, Current.agent_id>>)]
    /\ UNCHANGED <<runner, env, metrics, acc>>

\* runner.py:114-141: the next persona's run_timestep is entered
BeginTurn ==
    /\ sched.pc = "for_agent"
    /\ sched.agent_idx <= Len(runner.persona_configs)
    /\ ~env.room.escaped
    /\ turn' = NewTurn
    /\ last' = NoCall
    /\ sched' = [sched EXCEPT !.pc = "turn", !.turns_started = @ + 1,
                              !.order = Append(@, <<sched.step, Current.agent_id>>)]
    /\ UNCHANGED <<runner, env, metrics, acc>>

\* the inner loop ends: every persona had its turn, or the room is escaped
RoundOver ==
    /\ sched.pc = "for_agent"
    /\ (sched.agent_idx > Len(runner.persona_configs) \/ env.room.escaped)
    /\ sched' = [sched EXCEPT !.pc = "end_step"]
    /\ UNCHANGED <<runner, env, last, turn, metrics, acc>>

\* runner.py:153: run_timestep has returned and its summary is logged
LogSummary ==
    /\ sched.pc = "returned"
    /\ metrics' = log_summary(metrics, Current.agent_id, sched.step, turn.summary)
    /\ turn' = NoTurn
    /\ sched' = [sched EXCEPT !.pc = "for_agent", !.agent_idx = @ + 1]
    /\ UNCHANGED <<runner, env, last, acc>>

\* runner.py:160-165: update_step, then leave the loop when escaped
EndStep ==
    /\ sched.pc = "end_step"
    /\ metrics' = update_step(metrics, env)
    /\ sched' = IF env.room.escaped
                THEN [sched EXCEPT !.pc = "finalize"]
                ELSE [sched EXCEPT !.pc = "for_step", !.step = @ + 1]
    /\ UNCHANGED <<runner, env, last, turn, acc>>

\* runner.py:167-168: metrics.finalize(env_state), then return
Finalize ==
    /\ sched.pc = "finalize"
    /\ metrics' = finalize(metrics, env, FALSE)
    /\ sched' = [sched EXCEPT !.pc = "done", !.finalize_calls = @ + 1]
    /\ UNCHANGED <<runner, env, last, turn, acc>>

----------------------------------------------------------------------------
(* Spec: one episode of run_episode, from the state init_env_state builds *)

SummaryInputs == {"I am done."}

Init ==
    /\ runner \in {SimulationRunner(TwoStageRoom, Personas, ExperimentSettings(rep, gos, ms)) :
                      rep \in BOOLEAN, gos \in BOOLEAN, ms \in 0..MaxSteps}
    /\ env = init_env_state(runner)
    /\ last = NoCall
    /\ sched = [Idle EXCEPT !.pc = "for_step"]
    /\ turn = NoTurn
    /\ metrics = EpisodeMetrics
    /\ acc = NoEpisodes

\* the oracle's replies in an episode
Oracle ==
    \/ OracleTool("try_password", [object_id |-> "box", password |-> "abcd"])
    \/ OracleTool("update_reputation",
                  [updates |-> Some(<<<<"alice", Num(5)>>, <<"bob", Num(0)>>>>)])
    \/ \E c \in SummaryInputs : OracleAssistant(c)

Next ==
    \/ StepBegin
    \/ StepsExhausted
    \/ BeginTurn
    \/ RoundOver
    \/ Oracle
    \/ OracleRaises
    \/ TurnFallback
    \/ LogSummary
    \/ EndStep
    \/ Finalize

Spec == Init /\ [][Next]_vars

\* SpecFP: the same episode on a state that may in addition carry the
\* failed_passwords mapping try_password reads, initially empty
InitFP ==
    /\ runner \in {SimulationRunner(TwoStageRoom, Personas, ExperimentSettings(rep, gos, ms)) :
                      rep \in BOOLEAN, gos \in BOOLEAN, ms \in 0..MaxSteps}
    /\ env \in {init_env_state(runner),
                [init_env_state(runner) EXCEPT
                    !.attrs = DictSet(@, "failed_passwords", EmptyDict)]}
    /\ last = NoCall
    /\ sched = [Idle EXCEPT !.pc = "for_step"]
    /\ turn = NoTurn
    /\ metrics = EpisodeMetrics
    /\ acc = NoEpisodes

SpecFP == InitFP /\ [][Next]_vars

\* every pending step of the episode is eventually taken: run_episode is
\* one sequential thread and each oracle call comes back
SpecFair == InitFP /\ [][Next]_vars /\ WF_vars(Next)

----------------------------------------------------------------------------
(* SpecScript: an episode, from the state init_env_state builds, with an   *)
(* oracle that requests each tool at most once in a turn, the gossip and   *)
(* reputation tools included, and then ends the turn with a statement the  *)
(* turn accepts                                                            *)

Fresh(tool_name) == tool_name \notin turn.tools_used

OracleOnce ==
    \/ Fresh("send_public") /\ OracleTool("send_public", [message |-> "hello"])
    \/ Fresh("try_password")
          /\ OracleTool("try_password", [object_id |-> "box", password |-> "abcd"])
    \/ Fresh("send_private")
          /\ OracleTool("send_private", [recipients |-> <<"alice", "BOB">>,
                                         message |-> "psst"])
    \/ Fresh("update_reputation")
          /\ OracleTool("update_reputation",
                        [updates |-> Some(<<<<"alice", Num(5)>>, <<"bob", Num(0)>>>>)])
    \/ /\ sched.pc = "turn"
       /\ ~MustUpdateFirst(runner.settings.reputation_enabled, ToolDispatch, turn.tools_used)
       /\ \E c \in SummaryInputs : OracleAssistant(c)

NextScript ==
    \/ StepBegin
    \/ StepsExhausted
    \/ BeginTurn
    \/ RoundOver
    \/ OracleOnce
    \/ LogSummary
    \/ EndStep
    \/ Finalize

SpecScript == Init /\ [][NextScript]_vars

----------------------------------------------------------------------------
(* SpecMany: run_many over one or more seeds, each episode with the oracle *)
(* of SpecScript extended by inspect_object and a password for either lock *)

MaxSeeds == 2

Personas3 == Personas \o <<AgentConfig("carol", "Carol")>>

\* room = self.base_room, without the copy: the episode works on the base
\* room itself
BaseRoomShared(base_room, episode_room) == episode_room

\* runner.py:46, room = copy.deepcopy(self.base_room): the episode changes
\* its own copy, so the base room after the episode is the base room
BaseRoomAfterEpisode(base_room, episode_room) == base_room

\* the state the next episode of run_many is given: init_env_state, and the
\* failed_passwords mapping again if the episodes of this run carry it
NextEnvState(r, e) ==
    IF hasattr(e, "failed_passwords")
    THEN [init_env_state(r) EXCEPT !.attrs = DictSet(@, "failed_passwords", EmptyDict)]
    ELSE init_env_state(r)

InitMany ==
    /\ runner \in {SimulationRunner(TwoStageRoom, ps, ExperimentSettings(rep, TRUE, 1)) :
                      ps \in {Personas, Personas3}, rep \in BOOLEAN}
    /\ env \in {init_env_state(runner),
                [init_env_state(runner) EXCEPT
                    !.attrs = DictSet(@, "failed_passwords", EmptyDict)]}
    /\ last = NoCall
    /\ sched \in {[Idle EXCEPT !.pc = "for_step", !.seeds = Some([i \in 1..n |-> i])] :
                     n \in 0..(MaxSeeds - 1)}
    /\ turn = NoTurn
    /\ metrics = EpisodeMetrics
    /\ acc = NoEpisodes

\* runner.py:173-175: acc.add(ep_metrics), and run_episode for the next seed
RunManyNext ==
    /\ sched.pc = "done"
    /\ sched.seeds # None
    /\ sched.seeds[1] # <<>>
    /\ acc' = [acc EXCEPT !.episodes = add(@, metrics)]
    /\ runner' = [runner EXCEPT !.base_room = BaseRoomAfterEpisode(@, env.room)]
    /\ env' = NextEnvState(runner', env)
    /\ metrics' = EpisodeMetrics
    /\ last' = NoCall
    /\ turn' = NoTurn
    /\ sched' = [Idle EXCEPT !.pc = "for_step", !.seed = Head(sched.seeds[1]),
                             !.seeds = Some(Tail(sched.seeds[1]))]

\* runner.py:175-176: acc.add(ep_metrics) for the last seed, and return acc
RunManyReturn ==
    /\ sched.pc = "done"
    /\ sched.seeds = Some(<<>>)
    /\ acc' = [acc EXCEPT !.episodes = add(@, metrics)]
    /\ sched' = [sched EXCEPT !.pc = "run_many_done"]
    /\ UNCHANGED <<runner, env, last, turn, metrics>>

OracleMany ==
    \/ Fresh("inspect_object") /\ OracleTool("inspect_object", [object_id |-> "door"])
    \/ /\ Fresh("try_password")
       /\ \/ OracleTool("try_password", [object_id |-> "door", password |-> "1234"])
          \/ OracleTool("try_password", [object_id |-> "box", password |-> "abcd"])
    \/ Fresh("send_private")
          /\ OracleTool("send_private", [recipients |-> <<"alice", "BOB">>,
                                         message |-> "psst"])
    \/ Fresh("update_reputation")
          /\ OracleTool("update_reputation",
                        [updates |-> Some(<<<<"alice", Num(5)>>, <<"bob", Num(0)>>>>)])
    \/ /\ sched.pc = "turn"
       /\ ~MustUpdateFirst(runner.settings.reputation_enabled, ToolDispatch, turn.tools_used)
       /\ \E c \in SummaryInputs : OracleAssistant(c)

NextMany ==
    \/ StepBegin
    \/ StepsExhausted
    \/ BeginTurn
    \/ RoundOver
    \/ OracleMany
    \/ LogSummary
    \/ EndStep
    \/ Finalize
    \/ RunManyNext
    \/ RunManyReturn

SpecMany == InitMany /\ [][NextMany]_vars

----------------------------------------------------------------------------
(* SpecTurn: one run_timestep of either persona on the state init_env_state *)
(* builds, with the oracle free to request any tool with any arguments      *)

InitTurn ==
    /\ runner \in {SimulationRunner(TwoStageRoom, Personas, ExperimentSettings(rep, gos, 1)) :
                      rep \in BOOLEAN, gos \in BOOLEAN}
    /\ env = init_env_state(runner)
    /\ last = NoCall
    /\ sched = Idle
    /\ turn = NoTurn
    /\ metrics = EpisodeMetrics
    /\ acc = NoEpisodes

\* agent.run_timestep(env_state, ...) for the persona at index i
StartTurn(i) ==
    /\ sched.pc = "direct"
    /\ turn' = NewTurn
    /\ sched' = [sched EXCEPT !.pc = "turn", !.agent_idx = i, !.turns_started = @ + 1,
                              !.order = Append(@, <<sched.step,
                                                    runner.persona_configs[i].agent_id>>)]
    /\ UNCHANGED <<runner, env, last, metrics, acc>>

OracleAny ==
    \/ OracleTool("inspect_object", [object_id |-> "door"])
    \/ OracleTool("inspect_object", NoArgs)
    \/ \E p \in {"1234", "abcd"} :
          OracleTool("try_password", [object_id |-> "door", password |-> p])
    \/ OracleTool("send_public", [message |-> "hello"])
    \/ OracleTool("send_private", [recipients |-> <<"BOB", "alice", "nobody">>,
                                   message |-> "psst"])
    \/ \E u \in {None, Some(<<<<"alice", Num(5)>>, <<"bob", Num(0)>>>>)} :
          OracleTool("update_reputation", [updates |-> u])
    \/ OracleTool("open_door", NoArgs)
    \/ \E c \in SummaryInputs : OracleAssistant(c)

NextTurn ==
    \/ \E i \in 1..Len(runner.persona_configs) : StartTurn(i)
    \/ OracleAny
    \/ TurnFallback

SpecTurn == InitTurn /\ [][NextTurn]_vars

----------------------------------------------------------------------------
(* SpecMetrics: an accumulator, episodes added to it, and summary() *)

EpisodeInputs ==
    {[EpisodeMetrics EXCEPT !.success = ok, !.steps_taken = n] :
        ok \in BOOLEAN, n \in {5, 7, 30}}

InitMetrics ==
    /\ runner = SimulationRunner(TwoStageRoom, Personas, ExperimentSettings(FALSE, FALSE, 0))
    /\ env = init_env_state(runner)
    /\ last = NoCall
    /\ sched = Idle
    /\ turn = NoTurn
    /\ metrics = EpisodeMetrics
    /\ acc = NoEpisodes

\* acc.add(ep)
AccAdd(ep) ==
    /\ Len(acc.episodes) < MaxEpisodes
    /\ acc' = [acc EXCEPT !.episodes = add(@, ep)]
    /\ UNCHANGED <<runner, env, last, sched, turn, metrics>>

\* acc.summary()
AccSummary ==
    /\ acc' = [acc EXCEPT !.report = Some(summary(acc.episodes))]
    /\ UNCHANGED <<runner, env, last, sched, turn, metrics>>

NextMetrics ==
    \/ \E ep \in EpisodeInputs : AccAdd(ep)
    \/ AccSummary

SpecMetrics == InitMetrics /\ [][NextMetrics]_vars

----------------------------------------------------------------------------
(* Properties of the room and of the handlers *)

HasLock(room, o) == o \in DOMAIN room.objects /\ room.objects[o].lock # None

LockOf(room, o) == room.objects[o].lock[1]

Listed(oids, x) == \E i \in 1..Len(oids) : oids[i] = x

\* the password is recorded as failed for the object
Failed(e, o, p) ==
    /\ hasattr(e, "failed_passwords")
    /\ o \in DOMAIN e.attrs["failed_passwords"]
    /\ p \in e.attrs["failed_passwords"][o]

\* C1: Room.try_password with the exact password of an object's lock makes
\* every existing object the lock lists in reveal_objects visible, sets
\* escaped when the lock's escape flag is set and leaves it as it was
\* otherwise, and returns the lock's on_success_text.
C1_CorrectPasswordOpens ==
    [][\A o \in ObjectInputs, p \in PasswordInputs :
         (/\ RoomTryPassword(o, p)
          /\ HasLock(env.room, o)
          /\ p = LockOf(env.room, o).password)
         => LET lock == LockOf(env.room, o) IN
            /\ \A x \in DOMAIN env.room.objects :
                   Listed(lock.reveal_objects, x) => env'.room.objects[x].visible
            /\ env'.room.escaped = (IF lock.escape THEN TRUE ELSE env.room.escaped)
            /\ last'.text = <<lock.on_success_text>>]_vars

\* the door was opened with its password: the box and the poster it lists,
\* both hidden at the start, are visible and the room is escaped
C1_Witness ==
    /\ last.op = "Room.try_password"
    /\ last.object_id = "door"
    /\ last.password = "1234"
    /\ last.text = <<"The door swings open.">>
    /\ ~runner.base_room.objects["box"].visible
    /\ ~runner.base_room.objects["poster"].visible
    /\ env.room.objects["box"].visible
    /\ env.room.objects["poster"].visible
    /\ env.room.escaped

\* C2: no handler call turns a visible object invisible or an escaped room
\* not escaped.
C2_Monotonic ==
    [][/\ \A o \in DOMAIN env.room.objects :
              env.room.objects[o].visible => env'.room.objects[o].visible
       /\ env.room.escaped => env'.room.escaped]_vars

\* the box was opened, which set escaped, and then the door, whose lock has
\* no escape flag and reveals the box: the room is still escaped
C2_Witness ==
    /\ env.room.escaped
    /\ env.room.objects["box"].visible
    /\ last.op = "try_password"
    /\ last.object_id = "door"
    /\ last.calls = 2

\* C3: on the state init_env_state builds, the first try_password with a
\* wrong password on a locked object adds one to wrong_password_attempts and
\* records the password as failed for the object; a later identical call
\* leaves the counter alone and returns the "already tried" text.
C3_WrongAttemptCountedOnce ==
    [][\A a \in AgentIds(runner), o \in ObjectInputs, p \in PasswordInputs :
         (/\ CallTryPassword(a, o, p)
          /\ HasLock(env.room, o)
          /\ p # LockOf(env.room, o).password)
         => IF Failed(env, o, p)
            THEN /\ env'.wrong_password_attempts = env.wrong_password_attempts
                 /\ ~last'.raised
                 /\ last'.text = SkipText
            ELSE /\ env'.wrong_password_attempts = env.wrong_password_attempts + 1
                 /\ Failed(env', o, p)]_vars

\* C4: on the state init_env_state builds, every try_password with the exact
\* password of the object's lock returns the lock's on_success_text.
C4_CorrectPasswordSucceeds ==
    [][\A a \in AgentIds(runner), o \in ObjectInputs, p \in PasswordInputs :
         (/\ CallTryPassword(a, o, p)
          /\ HasLock(env.room, o)
          /\ p = LockOf(env.room, o).password)
         => /\ ~last'.raised
            /\ last'.text = <<LockOf(env.room, o).on_success_text>>]_vars

\* C5: no agent's reputation map has a key equal to the agent's own id.
C5_NoSelfReputation ==
    \A a \in DOMAIN env.agent_states : a \notin DOMAIN env.agent_states[a].reputation

\* bob has made an update that names alice in capitals and himself by his
\* display name, and alice one that names herself first and bob second: each
\* holds a score for the other only
C5_Witness ==
    /\ last.op = "update_reputation"
    /\ last.agent_id = "alice"
    /\ last.updates = Some(<<<<"alice", Num(5)>>, <<"bob", Num(0)>>>>)
    /\ env.agent_states["alice"].reputation = [bob |-> 0]
    /\ env.agent_states["bob"].reputation = [alice |-> 2]

\* C6: update_reputation with updates None or empty leaves the whole episode
\* state as it was and returns a text.
C6_EmptyUpdateIsNoOp ==
    [][\A a \in AgentIds(runner), u \in UpdateInputs :
         (CallUpdateReputation(a, u) /\ IsNoOp(u))
         => /\ env' = env
            /\ ~last'.raised
            /\ last'.text # <<>>]_vars

\* update_reputation(None) was called on a state with a wrong attempt counted
C6_Witness ==
    /\ last.op = "update_reputation"
    /\ last.updates = None
    /\ ~last.raised
    /\ last.text = <<"No reputation changes applied.">>
    /\ env.wrong_password_attempts = 1
    /\ last.calls = 2

----------------------------------------------------------------------------
(* Properties of the turn, the episode and the accumulator *)

ToolNames ==
    {"inspect_object", "try_password", "send_public", "send_private",
     "update_reputation", "open_door"}

\* C7: within one run_timestep no handler runs twice, and a request for a
\* tool already requested in the turn runs no handler, leaves the episode
\* state as it was, adds the "already used" notice to the conversation and
\* stays in the loop.
C7_OncePerTurn ==
    [][/\ \A n \in DOMAIN turn'.handler_runs : turn'.handler_runs[n] <= 1
       /\ \A n \in ToolNames :
            (OracleTool(n, NoArgs) /\ n \in turn.tools_used)
            => /\ env' = env
               /\ turn'.handler_runs = turn.handler_runs
               /\ turn'.messages = Appended(turn.messages, <<AlreadyUsedNotice(n)>>)
               /\ sched'.pc = "turn"]_vars

\* alice asked for inspect_object a second time: the notice is the latest
\* entry of the conversation and her observation log holds one entry
C7_Witness ==
    /\ sched.pc = "turn"
    /\ Current.agent_id = "alice"
    /\ turn.tools_used = {"inspect_object"}
    /\ turn.iteration = 2
    /\ turn.messages.tail = <<AlreadyUsedNotice("inspect_object")>>
    /\ Len(env.agent_states["alice"].private_observations) = 1

\* C8: with max_steps = 0 and a room that does not start escaped,
\* run_episode starts no turn and makes no oracle call, and the metrics it
\* returns have steps_taken = 0 and success = false.
C8_ZeroSteps ==
    (runner.settings.max_steps = 0 /\ ~runner.base_room.escaped)
    => /\ sched.turns_started = 0
       /\ turn = NoTurn
       /\ metrics.summaries = <<>>
       /\ sched.pc \in {"for_step", "finalize", "done"}
       /\ sched.pc = "done" => (metrics.steps_taken = 0 /\ ~metrics.success)

\* an episode with max_steps = 0 has returned
C8_Witness ==
    /\ runner.settings.max_steps = 0
    /\ sched.pc = "done"
    /\ metrics.steps_taken = 0
    /\ ~metrics.success

StepsOver(episodes, S) == SumSteps([i \in 1..Len(episodes) |->
                                       IF i \in S THEN episodes[i]
                                       ELSE [episodes[i] EXCEPT !.steps_taken = 0]])

\* is the fraction f equal to a / b
Equals(f, a, b) == f.num * b = a * f.den

ExampleEpisodes ==
    <<[EpisodeMetrics EXCEPT !.success = TRUE, !.steps_taken = 5],
      [EpisodeMetrics EXCEPT !.success = FALSE, !.steps_taken = 30],
      [EpisodeMetrics EXCEPT !.success = TRUE, !.steps_taken = 7]>>

\* C9: summary() over N episodes gives success_rate = successes / N (0 when
\* N = 0) and avg_steps_if_success = the mean of steps_taken over the
\* successful episodes (0 when there is none); for outcomes
\* [true, false, true] with steps [5, 30, 7] these are 2/3 and 6.
C9_Summary ==
    [][AccSummary =>
        LET eps == acc.episodes
            N == Len(eps)
            S == {i \in 1..N : eps[i].success}
            r == acc'.report[1]
        IN /\ r.num_episodes = N
           /\ IF N = 0 THEN Equals(r.success_rate, 0, 1)
                       ELSE Equals(r.success_rate, Cardinality(S), N)
           /\ IF S = {} THEN Equals(r.avg_steps_if_success, 0, 1)
                        ELSE Equals(r.avg_steps_if_success, StepsOver(eps, S), Cardinality(S))
           /\ eps = ExampleEpisodes
                 => /\ Equals(r.success_rate, 2, 3)
                    /\ Equals(r.avg_steps_if_success, 6, 1)]_vars

\* summary() was called on the three example episodes
C9_Witness ==
    /\ acc.episodes = ExampleEpisodes
    /\ acc.report # None
    /\ acc.report[1].num_episodes = 3
    /\ acc.report[1].success_rate = Div(2, 3)
    /\ acc.report[1].avg_steps_if_success = Div(12, 2)

\* C10: run_timestep makes at most 10 oracle calls: every pass of its loop
\* is one more oracle call or the return, it can always take a next pass or
\* return, and after the tenth call without an accepted final statement it
\* returns the fallback summary.
C10_TurnTerminates ==
    /\ [](sched.pc = "turn" => (LoopGuard(turn.iteration) \/ ENABLED TurnFallback))
    /\ [][/\ turn'.iteration <= max_iterations
          /\ sched.pc = "turn"
                => (turn'.iteration = turn.iteration + 1 \/ sched'.pc = "returned")
          /\ (sched.pc = "turn" /\ turn.iteration = max_iterations)
                => /\ sched'.pc = "returned"
                   /\ turn'.iteration = turn.iteration
                   /\ turn'.summary = FallbackSummary(Current.name)]_vars

\* bob's turn returned the fallback summary after ten oracle calls
C10_Witness ==
    /\ sched.pc = "returned"
    /\ Current.agent_id = "bob"
    /\ turn.iteration = max_iterations
    /\ turn.summary = FallbackSummary("Bobby")

----------------------------------------------------------------------------
(* Properties of run_episode *)

NumAgents == Len(runner.persona_configs)

\* the k-th turn of an episode in which nobody has escaped yet: timestep
\* and agent id, personas in configuration order within each timestep
ExpectedTurn(k) ==
    <<(k - 1) \div NumAgents, runner.persona_configs[((k - 1) % NumAgents) + 1].agent_id>>

\* C11: the turns of an episode are started in timestep order and, within a
\* timestep, in the order of persona_configs, each agent at most once per
\* timestep; a turn starts only when no other turn is in progress and the
\* previous summary is logged; every handler run in a turn acts for the
\* agent whose turn it is; once room.escaped is true no turn is started.
C11_TurnOrder ==
    /\ [](\A k \in 1..Len(sched.order) : sched.order[k] = ExpectedTurn(k))
    /\ [][/\ sched'.order # sched.order
             => /\ sched.pc = "for_agent"
                /\ turn = NoTurn
                /\ Len(metrics.summaries) = Len(sched.order)
                /\ ~env.room.escaped
          /\ (sched.pc = "turn" /\ last' # last)
             => last'.agent_id = sched.order[Len(sched.order)][2]
          /\ env.room.escaped => sched'.order = sched.order]_vars

\* alice escaped in her second turn: bob got no turn in timestep 1
C11_Witness ==
    /\ runner.settings.max_steps = 2
    /\ sched.pc = "done"
    /\ env.room.escaped
    /\ sched.order = <<<<0, "alice">>, <<0, "bob">>, <<1, "alice">>>>

\* C12: an episode whose oracle calls all return reaches the end of
\* run_episode, after at most max_steps * (number of agents) turns; at the
\* end success is room.escaped, and either the room is escaped or all
\* max_steps timesteps were executed; finalize is called exactly once, after
\* the loop.
C12_Terminates ==
    /\ [](sched.turns_started <= runner.settings.max_steps * NumAgents)
    /\ [](sched.finalize_calls = (IF sched.pc = "done" THEN 1 ELSE 0))
    /\ [](sched.pc = "done"
            => /\ metrics.success = env.room.escaped
               /\ \/ env.room.escaped
                  \/ /\ sched.step = runner.settings.max_steps
                     /\ metrics.steps_taken = runner.settings.max_steps)
    /\ [][sched'.finalize_calls # sched.finalize_calls => sched.pc = "finalize"]_vars
    /\ ([](sched.pc # "aborted") => <>(sched.pc = "done"))

\* an episode ran out of timesteps after max_steps * 2 turns, nobody escaped
C12_Witness ==
    /\ runner.settings.max_steps = 2
    /\ sched.pc = "done"
    /\ sched.turns_started = 4
    /\ ~env.room.escaped
    /\ ~metrics.success
    /\ metrics.steps_taken = 2

\* a step of a turn in which the handler of tool_name is run
Ran(tool_name) ==
    /\ sched.pc = "turn"
    /\ DictGet(turn'.handler_runs, tool_name, 0) = DictGet(turn.handler_runs, tool_name, 0) + 1

\* C13: in an episode, the turn's first try_password request, on an object
\* whose lock has escape set and with the lock's exact password, makes
\* room.escaped true; after that no turn is started and the episode's
\* metrics report success.
C13_CorrectPasswordEscapes ==
    /\ [][/\ (/\ Ran("try_password")
               /\ HasLock(env.room, last'.object_id)
               /\ LockOf(env.room, last'.object_id).escape
               /\ last'.password = LockOf(env.room, last'.object_id).password)
             => env'.room.escaped
          /\ env.room.escaped => sched'.turns_started = sched.turns_started]_vars
    /\ []((sched.pc = "done" /\ env.room.escaped) => metrics.success)

----------------------------------------------------------------------------
(* Properties of Agent.run_timestep *)

\* a step of a turn in which the oracle's reply is of the given kind
Reply(kind) ==
    /\ sched.pc = "turn"
    /\ turn'.iteration = turn.iteration + 1
    /\ turn'.reply = kind

\* C14: with reputation tracking enabled, a final statement arriving before
\* any update_reputation request of the turn is not returned: the reminder
\* is appended to the conversation and the loop continues; so a returned
\* oracle statement always follows an update_reputation request.  With
\* reputation tracking disabled the first final statement is returned.
C14_ReputationBeforeSummary ==
    /\ [][Reply("assistant")
            => IF /\ runner.settings.reputation_enabled
                  /\ "update_reputation" \notin turn.tools_used
               THEN /\ sched'.pc = "turn"
                    /\ turn'.summary = <<>>
                    /\ turn'.messages = Appended(turn.messages, <<ReputationReminder>>)
                    /\ env' = env
               ELSE /\ sched'.pc = "returned"
                    /\ turn'.summary \in {<<c>> : c \in SummaryInputs}]_vars
    /\ []((/\ sched.pc = "returned"
           /\ runner.settings.reputation_enabled
           /\ turn.summary # FallbackSummary(Current.name))
            => "update_reputation" \in turn.tools_used)
    /\ []((sched.pc = "turn" /\ ~runner.settings.reputation_enabled) => turn.reply # "assistant")

\* with reputation tracking enabled, the oracle's first reply was a final
\* statement: the turn goes on, the reminder is the latest message
C14_Witness ==
    /\ runner.settings.reputation_enabled
    /\ sched.pc = "turn"
    /\ turn.iteration = 1
    /\ turn.reply = "assistant"
    /\ turn.summary = <<>>
    /\ turn.messages = [len |-> 3, tail |-> <<ReputationReminder>>]

\* C15: a handler that raises does not end the turn or the episode: the
\* exception becomes an 'Error executing <action>' tool result in the
\* conversation and the loop goes on; only an exception of the oracle call
\* aborts an episode; and after a fault in a turn of the first timestep the
\* episode goes on to the next agent's turn, to the next timestep, or to
\* its end.
C15_HandlerFaultRecovered ==
    /\ [][(sched.pc = "turn" /\ last' # last /\ last'.raised)
            => /\ sched' = sched
               /\ turn'.iteration = turn.iteration + 1
               /\ turn'.messages.len = turn.messages.len + 2
               /\ turn'.messages.tail[2] =
                     Message("user", <<"Tool result:", "Error executing", last'.op, ":">>
                                     \o last'.text)]_vars
    /\ [](sched.pc = "aborted" => turn.reply = "raise")
    /\ \A n \in 1..Len(Personas) :
          (sched.pc = "turn" /\ last.raised /\ Len(sched.order) = n)
             ~> (Len(sched.order) > n \/ sched.pc \in {"done", "aborted"})

\* every try_password of the episode raised, in bob's last turn too, and
\* the episode ran all its turns and returned
C15_Witness ==
    /\ ~hasattr(env, "failed_passwords")
    /\ runner.settings.max_steps = 2
    /\ sched.pc = "done"
    /\ sched.turns_started = 4
    /\ last.op = "try_password"
    /\ last.agent_id = "bob"
    /\ last.raised

\* C16: an exception of llm.call_with_tools leaves run_timestep and
\* run_episode: nothing of the episode runs after it, its state and metrics
\* stay as they were, and finalize is never called.
C16_OracleFaultAborts ==
    /\ [][/\ Reply("raise")
             => (sched'.pc = "aborted" /\ env' = env /\ metrics' = metrics)
          /\ sched.pc # "aborted"]_vars
    /\ [](sched.pc = "aborted" => sched.finalize_calls = 0)

\* the oracle call of bob's first turn raised, after alice's whole turn
C16_Witness ==
    /\ sched.pc = "aborted"
    /\ sched.order = <<<<0, "alice">>, <<0, "bob">>>>
    /\ Len(metrics.summaries) = 1
    /\ metrics.steps_taken = 0
    /\ ~metrics.success

----------------------------------------------------------------------------
(* Properties of the dispatch table *)

\* what the configuration makes dispatchable
Available(tool_name) ==
    \/ tool_name \in {"inspect_object", "try_password", "send_public"}
    \/ tool_name = "send_private" /\ runner.settings.gossip_enabled
    \/ tool_name = "update_reputation" /\ runner.settings.reputation_enabled

\* the request was refused for want of a handler
NoHandler(call) == call.raised /\ call.text[1] = "KeyError"

\* C17: through an episode, inspect_object, try_password and send_public are
\* in the dispatch table and a request naming a tool finds no handler
\* exactly when the configuration leaves the tool out; with gossip disabled
\* every private message log stays empty, and with reputation tracking
\* disabled every reputation map stays empty, whatever the oracle requests.
C17_Availability ==
    /\ []({"inspect_object", "try_password", "send_public"} \subseteq ToolDispatch)
    /\ [][\A t \in {"try_password", "send_public", "send_private", "update_reputation"} :
            Ran(t) => /\ NoHandler(last') <=> ~Available(t)
                      /\ NoHandler(last') => env' = env]_vars
    /\ [](~runner.settings.gossip_enabled
            => \A a \in DOMAIN env.agent_states : env.agent_states[a].private_messages = <<>>)
    /\ [](~runner.settings.reputation_enabled
            => \A a \in DOMAIN env.agent_states : env.agent_states[a].reputation = EmptyDict)

\* gossip and reputation tracking are disabled; in the last turn of the
\* episode bob's oracle has requested update_reputation and then
\* send_private, and no log and no map has an entry
C17_Witness ==
    /\ ~runner.settings.gossip_enabled
    /\ ~runner.settings.reputation_enabled
    /\ sched.pc = "turn"
    /\ Len(sched.order) = 4
    /\ DOMAIN turn.handler_runs = {"send_private", "update_reputation"}
    /\ last.op = "send_private"
    /\ NoHandler(last)
    /\ \A a \in DOMAIN env.agent_states :
          /\ env.agent_states[a].private_messages = <<>>
          /\ env.agent_states[a].reputation = EmptyDict

----------------------------------------------------------------------------
(* Properties of send_private and update_reputation *)

\* a label with surrounding blanks and letter case set aside
Label(raw) == StrLower(StrStrip(raw))

\* does the label name agent a by its id or by its AgentConfig.name
NamesPersona(raw, a) ==
    \/ Label(raw) = StrLower(a)
    \/ Label(raw) = StrLower(DisplayNames(runner)[a])

\* does the label name agent a by its id or by the display name the
\* episode state holds for it
NamesAgent(e, raw, a) ==
    \/ Label(raw) = StrLower(a)
    \/ a \in DOMAIN e.agent_names /\ Label(raw) = StrLower(e.agent_names[a])

\* C18: on the state init_env_state builds, send_private appends the message
\* to the private message log of every agent that an entry of recipients
\* names by id or by display name (AgentConfig.name), letter case aside, and
\* to no other log, and returns the same confirmation in every case.
C18_PrivateRecipients ==
    [][\A a \in AgentIds(runner), rs \in RecipientInputs, m \in MessageInputs :
         CallSendPrivate(a, rs, m)
         => /\ ~last'.raised
            /\ last'.text = <<"Private message sent.">>
            /\ \A b \in AgentIds(runner) :
                  LET log  == env.agent_states[b].private_messages
                      log1 == env'.agent_states[b].private_messages
                  IN IF \E i \in 1..Len(rs) : NamesPersona(rs[i], b)
                     THEN /\ Len(log1) = Len(log) + 1
                          /\ SubSeq(log1, 1, Len(log)) = log
                          /\ log1[Len(log1)].text = <<m>>
                     ELSE log1 = log]_vars

\* C19: a send_private call changes the private message logs of the agents
\* its recipients resolve to and nothing else: not the other agents' logs,
\* no private observation log, no reputation map, not the public chat, not
\* the room.
C19_PrivateFrame ==
    [][\A a \in AgentIds(runner), rs \in RecipientInputs, m \in MessageInputs :
         CallSendPrivate(a, rs, m)
         => /\ \A b \in AgentIds(runner) :
                  (env'.agent_states[b].private_messages # env.agent_states[b].private_messages)
                     => \E i \in 1..Len(rs) : NamesAgent(env, rs[i], b)
            /\ env' = [env EXCEPT !.agent_states =
                          [b \in DOMAIN env.agent_states |->
                              [env.agent_states[b] EXCEPT !.private_messages =
                                  env'.agent_states[b].private_messages]]]]_vars

\* bob sent a private message to alice and to an unknown name after having
\* inspected the door: alice's log has the message, bob's has none, and
\* bob's observation is still there
C19_Witness ==
    /\ last.op = "send_private"
    /\ last.agent_id = "bob"
    /\ last.recipients = <<"alice", "nobody">>
    /\ last.calls = 2
    /\ Len(env.agent_states["alice"].private_messages) = 1
    /\ env.agent_states["bob"].private_messages = <<>>
    /\ Len(env.agent_states["bob"].private_observations) = 1

\* the number a score stands for
ScoreValue(score) == IF score.kind = "num" THEN score.num ELSE 2

\* C20: update_reputation with a non-empty updates map leaves the caller
\* holding, for each agent other than the caller that an entry names by id
\* or display name, exactly the score of the last such entry, whatever was
\* held before; entries naming nobody or the caller change nothing; the
\* caller's other entries, the other agents' maps and the rest of the state
\* are unchanged.
C20_ReputationSet ==
    [][\A a \in AgentIds(runner), u \in UpdateInputs :
         (CallUpdateReputation(a, u) /\ ~IsNoOp(u))
         => LET items == u[1]
                rep   == env.agent_states[a].reputation
                rep1  == env'.agent_states[a].reputation
                Hits(t) == {i \in 1..Len(items) : NamesAgent(env, items[i][1], t)}
                LastHit(t) == CHOOSE i \in Hits(t) : \A j \in Hits(t) : j <= i
            IN /\ ~last'.raised
               /\ \A t \in AgentIds(runner) :
                     IF t # a /\ Hits(t) # {}
                     THEN /\ t \in DOMAIN rep1
                          /\ rep1[t] = ScoreValue(items[LastHit(t)][2])
                     ELSE /\ (t \in DOMAIN rep1) <=> (t \in DOMAIN rep)
                          /\ t \in DOMAIN rep => rep1[t] = rep[t]
               /\ DOMAIN rep1 \subseteq AgentIds(runner)
               /\ env' = [env EXCEPT !.agent_states[a].reputation = rep1]]_vars

\* alice, who already held another score for bob, named bob twice in one
\* update, by id with 1 and by display name with 3: she holds 3
C20_Witness ==
    /\ env.agent_names = DisplayNames(runner)
    /\ last.op = "update_reputation"
    /\ last.agent_id = "alice"
    /\ last.updates = Some(<<<<"bob", Num(1)>>, <<"Bobby", Num(3)>>>>)
    /\ last.calls = 2
    /\ env.agent_states["alice"].reputation = [bob |-> 3]

----------------------------------------------------------------------------
(* Properties of the episode's metrics *)

\* the agents that hold a score for target, target itself left out
Holders(e, target) ==
    {o \in DOMAIN e.agent_states \ {target} : target \in DOMAIN e.agent_states[o].reputation}

RECURSIVE SumHeld(_, _, _)
SumHeld(e, target, holders) ==
    IF holders = {} THEN 0
    ELSE LET o == CHOOSE x \in holders : TRUE
         IN e.agent_states[o].reputation[target] + SumHeld(e, target, holders \ {o})

\* C21: when an episode with reputation tracking enabled has returned, its
\* final_reputation_scores has an entry exactly for the agents some other
\* agent holds a score for, and the entry is the mean of those scores.
C21_FinalReputation ==
    (sched.pc = "done" /\ runner.settings.reputation_enabled)
    => /\ DOMAIN metrics.final_reputation_scores =
             {t \in DOMAIN env.agent_states : Holders(env, t) # {}}
       /\ \A t \in DOMAIN metrics.final_reputation_scores :
             Equals(metrics.final_reputation_scores[t],
                    SumHeld(env, t, Holders(env, t)), Cardinality(Holders(env, t)))

\* C22: steps_taken of a returned episode is the index of the last timestep
\* that had a turn, plus one, and 0 when there was no turn: the timestep of
\* the escape plus one, or max_steps when nobody escaped.
C22_StepsTaken ==
    sched.pc = "done"
    => /\ metrics.steps_taken =
             (IF sched.order = <<>> THEN 0 ELSE sched.order[Len(sched.order)][1] + 1)
       /\ ~env.room.escaped => metrics.steps_taken = runner.settings.max_steps
       /\ env.room.escaped => metrics.steps_taken = env.public_state.timestep + 1
       /\ runner.settings.max_steps = 0 => metrics.steps_taken = 0

\* bob escaped in timestep 0 of an episode with two timesteps: one step taken
C22_Witness ==
    /\ runner.settings.max_steps = 2
    /\ sched.pc = "done"
    /\ env.room.escaped
    /\ sched.order = <<<<0, "alice">>, <<0, "bob">>>>
    /\ metrics.steps_taken = 1

----------------------------------------------------------------------------
(* Properties of the public notices of try_password *)

\* what a try_password call on a locked object comes to
Outcome(e, o, p) ==
    IF Failed(e, o, p) THEN "skipped"
    ELSE IF p = LockOf(e.room, o).password THEN "success"
    ELSE "failure"

\* the public chat a try_password call leaves
ChatAfter(e, a, o, p) == try_password(e, a, o, p).env.public_state.public_chat

\* C23: every try_password call on an object with a lock appends exactly
\* one message with sender "system" to the public chat, and no part of its
\* text is the password; two calls that differ only in the password and
\* come to the same outcome leave the same chat; a call on an absent object
\* or on an object without a lock leaves the chat as it was.
C23_PasswordFreeNotice ==
    /\ [][\A a \in AgentIds(runner), o \in ObjectInputs, p \in PasswordInputs :
            CallTryPassword(a, o, p)
            => LET chat  == env.public_state.public_chat
                   chat1 == env'.public_state.public_chat
               IN IF HasLock(env.room, o)
                  THEN /\ Len(chat1) = Len(chat) + 1
                       /\ SubSeq(chat1, 1, Len(chat)) = chat
                       /\ chat1[Len(chat1)].sender = "system"
                       /\ \A i \in 1..Len(chat1[Len(chat1)].text) :
                             chat1[Len(chat1)].text[i] # p
                  ELSE chat1 = chat]_vars
    /\ [](\A a \in AgentIds(runner), o \in ObjectInputs, p1 \in PasswordInputs,
             p2 \in PasswordInputs :
             (HasLock(env.room, o) /\ Outcome(env, o, p1) = Outcome(env, o, p2))
             => ChatAfter(env, a, o, p1) = ChatAfter(env, a, o, p2))

----------------------------------------------------------------------------
(* Properties of init_env_state and run_many *)

\* run_episode has been given its state and has not begun a timestep
EpisodeStart == sched.pc = "for_step" /\ sched.step = 0 /\ sched.order = <<>>

\* C24: every episode of run_many starts from the base room as it was
\* loaded (its visibility flags, escaped false), an empty public chat, empty
\* private logs, no wrong attempts and no failed passwords, whatever the
\* episodes before it did; and no step of an episode changes base_room.
C24_EpisodesIsolated ==
    /\ [](EpisodeStart
            => /\ env.room = TwoStageRoom
               /\ ~env.room.escaped
               /\ env.public_state.public_chat = <<>>
               /\ \A a \in DOMAIN env.agent_states :
                     /\ env.agent_states[a].private_observations = <<>>
                     /\ env.agent_states[a].private_messages = <<>>
               /\ env.wrong_password_attempts = 0
               /\ \A o \in ObjectInputs, p \in PasswordInputs : ~Failed(env, o, p))
    /\ [](runner.base_room = TwoStageRoom)
    /\ [][runner'.base_room = runner.base_room]_vars

\* the second episode of a run_many starts afresh, after a first episode in
\* which the team escaped
C24_Witness ==
    /\ EpisodeStart
    /\ Len(acc.episodes) = 1
    /\ acc.episodes[1].success
    /\ ~env.room.objects["box"].visible
    /\ ~env.room.escaped

\* C25: at the start of every episode each agent's reputation map, with
\* reputation tracking enabled, has the score 1 for each other configured
\* agent and nothing else, and is empty with reputation tracking disabled.
C25_NeutralReputation ==
    EpisodeStart
    => \A a \in DOMAIN env.agent_states :
          LET rep == env.agent_states[a].reputation IN
          IF runner.settings.reputation_enabled
          THEN /\ DOMAIN rep = AgentIds(runner) \ {a}
               /\ \A o \in DOMAIN rep : rep[o] = 1
          ELSE rep = EmptyDict

\* with three personas and reputation tracking enabled, a second episode
\* starts after a first one: carol holds 1 for alice and for bob
C25_Witness ==
    /\ EpisodeStart
    /\ Len(acc.episodes) = 1
    /\ runner.settings.reputation_enabled
    /\ DOMAIN env.agent_states = {"alice", "bob", "carol"}
    /\ env.agent_states["carol"].reputation = [alice |-> 1, bob |-> 1]

----------------------------------------------------------------------------
(* Properties of inspect_object and send_public *)

\* C26: every inspect_object call, on a known or an unknown object id,
\* raises nothing, returns the text Room.inspect_object gives (the not-found
\* text for an unknown id) and appends one entry with the current timestep
\* and that text to the caller's private observation log; nothing else of
\* the episode state changes.
C26_InspectFrame ==
    [][\A a \in AgentIds(runner), o \in ObjectInputs :
         CallInspectObject(a, o)
         => LET obs  == env.agent_states[a].private_observations
                obs1 == env'.agent_states[a].private_observations
            IN /\ ~last'.raised
               /\ o \notin DOMAIN env.room.objects
                     => last'.text = <<"There is no object with id", o>>
               /\ Len(obs1) = Len(obs) + 1
               /\ SubSeq(obs1, 1, Len(obs)) = obs
               /\ obs1[Len(obs1)].timestep = env.public_state.timestep
               /\ obs1[Len(obs1)].object_id = o
               /\ obs1[Len(obs1)].text = last'.text
               /\ env' = [env EXCEPT !.agent_states[a].private_observations = obs1]]_vars

\* in timestep 1 bob inspected the door and then an object that does not
\* exist: his log has both entries, alice's has none
C26_Witness ==
    /\ env.public_state.timestep = 1
    /\ last.op = "inspect_object"
    /\ last.agent_id = "bob"
    /\ last.object_id = "ghost"
    /\ last.text = <<"There is no object with id", "ghost">>
    /\ Len(env.agent_states["bob"].private_observations) = 2
    /\ env.agent_states["bob"].private_observations[2].timestep = 1
    /\ env.agent_states["alice"].private_observations = <<>>

\* C27: on the state init_env_state builds, every send_public call raises
\* nothing and appends one message to the public chat, with the caller's
\* display name (AgentConfig.name) as sender, the current timestep and the
\* text given.
C27_PublicSender ==
    [][\A a \in AgentIds(runner), m \in MessageInputs :
         CallSendPublic(a, m)
         => LET chat  == env.public_state.public_chat
                chat1 == env'.public_state.public_chat
            IN /\ ~last'.raised
               /\ Len(chat1) = Len(chat) + 1
               /\ SubSeq(chat1, 1, Len(chat)) = chat
               /\ chat1[Len(chat1)].timestep = env.public_state.timestep
               /\ chat1[Len(chat1)].text = <<m>>
               /\ chat1[Len(chat1)].sender = DisplayNames(runner)[a]]_vars

----------------------------------------------------------------------------
(* SpecRating: update_reputation called on the state init_env_state builds *)
(* with reputation tracking on, also with scores that are no numbers       *)

FaultyUpdateInputs ==
    {Some(<<<<"bob", Num(4)>>, <<"BOB", Str("high")>>, <<" bob ", Num(0)>>>>),
     Some(<<<<"nobody", Str("high")>>, <<"alice", Str("high")>>, <<"carol", Num(3)>>>>),
     Some(<<<<"carol", Num(0)>>, <<"alice", Num(5)>>, <<"bob", Str("low")>>>>)}

InitRating ==
    /\ runner \in {SimulationRunner(TwoStageRoom, ps, ExperimentSettings(TRUE, TRUE, 0)) :
                      ps \in {Personas, Personas3}}
    /\ env = init_env_state(runner)
    /\ last = NoCall
    /\ sched = Idle
    /\ turn = NoTurn
    /\ metrics = EpisodeMetrics
    /\ acc = NoEpisodes

NextRating ==
    \E a \in AgentIds(runner), u \in UpdateInputs \cup FaultyUpdateInputs :
        CallUpdateReputation(a, u)

SpecRating == InitRating /\ [][NextRating]_vars

----------------------------------------------------------------------------
(* SpecChat: an episode on a state that carries the failed_passwords       *)
(* mapping, with an oracle that may ask for the same tool again and again: *)
(* public messages and two wrong passwords for the door                    *)

InitChat ==
    /\ runner \in {SimulationRunner(TwoStageRoom, ps,
                                     ExperimentSettings(FALSE, FALSE, ms)) :
                      ps \in {Personas, Personas3}, ms \in 0..1}
    /\ env = [init_env_state(runner) EXCEPT
                 !.attrs = DictSet(@, "failed_passwords", EmptyDict)]
    /\ last = NoCall
    /\ sched = [Idle EXCEPT !.pc = "for_step"]
    /\ turn = NoTurn
    /\ metrics = EpisodeMetrics
    /\ acc = NoEpisodes

OracleChat ==
    \/ OracleTool("send_public", [message |-> "hello"])
    \/ \E p \in {"abcd", "ABCD"} :
          OracleTool("try_password", [object_id |-> "door", password |-> p])
    \/ \E c \in SummaryInputs : OracleAssistant(c)

NextChat ==
    \/ StepBegin
    \/ StepsExhausted
    \/ BeginTurn
    \/ RoundOver
    \/ OracleChat
    \/ TurnFallback
    \/ LogSummary
    \/ EndStep
    \/ Finalize

SpecChat == InitChat /\ [][NextChat]_vars

----------------------------------------------------------------------------
(* SpecReplay: run_episode called twice on one runner, each call with a    *)
(* seed of its own, the oracle giving the same sequence of replies in both *)

SeedInputs == {0, 1}

\* the replies llm.call_with_tools can come back with
ToolCall(tool_name, args) ==
    [kind |-> "tool", tool_name |-> tool_name, args |-> args, content |-> ""]

FinalStatement(content) ==
    [kind |-> "assistant", tool_name |-> "", args |-> NoArgs, content |-> content]

Fault == [kind |-> "raise", tool_name |-> "", args |-> NoArgs, content |-> ""]

WrongDoor == ToolCall("try_password", [object_id |-> "door", password |-> "abcd"])
OpenDoor == ToolCall("try_password", [object_id |-> "door", password |-> "1234"])
OpenBox == ToolCall("try_password", [object_id |-> "box", password |-> "abcd"])
LookAtDoor == ToolCall("inspect_object", [object_id |-> "door"])
SayHello == ToolCall("send_public", [message |-> "hello"])
Whisper == ToolCall("send_private", [recipients |-> <<"alice", "BOB">>, message |-> "psst"])
Rate == ToolCall("update_reputation",
                 [updates |-> Some(<<<<"alice", Num(5)>>, <<"bob", Num(0)>>>>)])
Done == FinalStatement("I am done.")

\* sequences of replies; the last reply of a sequence is given again for
\* every later call
ReplayScripts ==
    <<  <<Done>>,
        <<Rate, Done>>,
        <<WrongDoor, Rate, Done, OpenDoor, Rate, Done, OpenBox, Rate, Done>>,
        <<OpenDoor, SayHello, Done, Rate, Done, WrongDoor, Rate, Done>>,
        <<LookAtDoor, Whisper, Rate, Done, SayHello, Rate, Done>>,
        <<SayHello, Rate, Done, LookAtDoor, Fault>>,
        <<Whisper, Rate, Done, Rate, OpenBox>>,
        <<OpenBox, Done, Rate, Done>>  >>

\* the acc variable of this specification: the replies, the seed of the
\* second call, and what the first call left (None until it has ended)
ReplayOf(script, second_seed) ==
    [episodes |-> <<>>, report |-> None, script |-> script,
     second_seed |-> second_seed, first |-> None]

InitReplay ==
    /\ runner \in {SimulationRunner(TwoStageRoom, Personas, ExperimentSettings(rep, gos, ms)) :
                      rep \in BOOLEAN, gos \in BOOLEAN, ms \in 1..MaxSteps}
    /\ env \in {init_env_state(runner),
                [init_env_state(runner) EXCEPT
                    !.attrs = DictSet(@, "failed_passwords", EmptyDict)]}
    /\ last = NoCall
    /\ sched \in {[Idle EXCEPT !.pc = "for_step", !.seed = s, !.trace = Some(<<>>)] :
                     s \in SeedInputs}
    /\ turn = NoTurn
    /\ metrics = EpisodeMetrics
    /\ acc \in {ReplayOf(ReplayScripts[i], s) :
                   i \in 1..Len(ReplayScripts), s \in SeedInputs}

\* the reply to the call about to be made: the replies are given in order
NextReply ==
    LET n == Len(sched.trace[1]) + 1 IN
    acc.script[IF n <= Len(acc.script) THEN n ELSE Len(acc.script)]

OracleReplay ==
    \/ NextReply.kind = "tool" /\ OracleTool(NextReply.tool_name, NextReply.args)
    \/ NextReply.kind = "assistant" /\ OracleAssistant(NextReply.content)
    \/ NextReply.kind = "raise" /\ OracleRaises

\* the first call has ended, by returning or by the oracle's exception:
\* what it left is kept and run_episode is called with the second seed
ReplayAgain ==
    /\ sched.pc \in {"done", "aborted"}
    /\ acc.first = None
    /\ acc' = [acc EXCEPT !.first = Some([env |-> env, metrics |-> metrics,
                                          trace |-> sched.trace[1],
                                          order |-> sched.order,
                                          seed |-> sched.seed,
                                          pc |-> sched.pc])]
    /\ env' = NextEnvState(runner, env)
    /\ metrics' = EpisodeMetrics
    /\ last' = NoCall
    /\ turn' = NoTurn
    /\ sched' = [Idle EXCEPT !.pc = "for_step", !.seed = acc.second_seed,
                             !.trace = Some(<<>>)]
    /\ UNCHANGED runner

NextReplay ==
    \/ StepBegin
    \/ StepsExhausted
    \/ BeginTurn
    \/ RoundOver
    \/ OracleReplay
    \/ TurnFallback
    \/ LogSummary
    \/ EndStep
    \/ Finalize
    \/ ReplayAgain

SpecReplay == InitReplay /\ [][NextReplay]_vars

----------------------------------------------------------------------------
(* Properties of misses *)

\* C28: Room.try_password returns the not-found text for an absent object
\* id, the no-lock text for an object without a lock and on_failure_text for
\* a wrong password, and in all three cases leaves every visible flag and
\* escaped as they were; a try_password call of the first two kinds leaves
\* the wrong-attempt counter as it was, and a call of any of the three
\* kinds leaves the room as it was.
C28_MissesChangeNothing ==
    /\ [](\A o \in ObjectInputs, p \in PasswordInputs :
             LET r == Room_try_password(env.room, o, p) IN
             IF o \notin DOMAIN env.room.objects
             THEN r.room = env.room /\ r.text = <<"There is no object with id", o>>
             ELSE IF ~HasLock(env.room, o)
             THEN /\ r.room = env.room
                  /\ r.text = <<"The", env.room.objects[o].name,
                                "does not seem to have any password lock.">>
             ELSE p # LockOf(env.room, o).password
                  => /\ r.room = env.room
                     /\ r.text = <<LockOf(env.room, o).on_failure_text>>)
    /\ [][\A a \in AgentIds(runner), o \in ObjectInputs, p \in PasswordInputs :
            CallTryPassword(a, o, p)
            => /\ ~HasLock(env.room, o)
                  => /\ env'.wrong_password_attempts = env.wrong_password_attempts
                     /\ env'.room = env.room
               /\ (HasLock(env.room, o) /\ p # LockOf(env.room, o).password)
                  => env'.room = env.room]_vars

\* after a wrong password on the door, a password was tried on the poster,
\* which has no lock: the no-lock text, the counter still 1, the room as
\* it was loaded
C28_Witness ==
    /\ last.op = "try_password"
    /\ last.object_id = "poster"
    /\ last.text = <<"The", "Poster", "does not seem to have any password lock.">>
    /\ last.calls = 2
    /\ env.wrong_password_attempts = 1
    /\ env.room = TwoStageRoom

----------------------------------------------------------------------------
(* Properties of the logs *)

IsPrefix(old, new) ==
    /\ Len(old) <= Len(new)
    /\ SubSeq(new, 1, Len(old)) = old

\* C30: every step leaves the public chat, each agent's private observation
\* log and each agent's private message log with their earlier entries
\* unchanged and in the same order: the old sequence is a prefix of the new.
C30_AppendOnly ==
    [][/\ IsPrefix(env.public_state.public_chat, env'.public_state.public_chat)
       /\ DOMAIN env'.agent_states = DOMAIN env.agent_states
       /\ \A a \in DOMAIN env.agent_states :
             /\ IsPrefix(env.agent_states[a].private_observations,
                         env'.agent_states[a].private_observations)
             /\ IsPrefix(env.agent_states[a].private_messages,
                         env'.agent_states[a].private_messages)]_vars

\* a second, different entry was appended to the chat by the last call and
\* the first entry is still in front of it
C30_Witness ==
    /\ last.calls = 2
    /\ last.op \in {"send_public", "try_password"}
    /\ Len(env.public_state.public_chat) = 2
    /\ env.public_state.public_chat[1] # env.public_state.public_chat[2]

----------------------------------------------------------------------------
(* Properties of replayed episodes *)

\* the second call of run_episode has ended
Replayed == acc.first # None /\ sched.pc \in {"done", "aborted"}

\* C29: two calls of run_episode on the same room, personas and settings in
\* which the oracle gives the same sequence of replies go through the same
\* sequence of (timestep, agent, action) steps and end the same way with
\* the same room, public chat, private states, wrong-attempt count and
\* metrics, whatever the two seeds are.
C29_Replayable ==
    Replayed
    => LET first == acc.first[1] IN
       /\ first.trace = sched.trace[1]
       /\ first.order = sched.order
       /\ first.pc = sched.pc
       /\ first.env.room = env.room
       /\ first.env.public_state = env.public_state
       /\ first.env.agent_states = env.agent_states
       /\ first.env.wrong_password_attempts = env.wrong_password_attempts
       /\ first.env = env
       /\ first.metrics = metrics

\* a replay under a different seed has returned: both personas acted, a
\* wrong password was counted, the door was opened and the room escaped
C29_Witness ==
    /\ Replayed
    /\ sched.pc = "done"
    /\ acc.first[1].seed # sched.seed
    /\ Len(sched.trace[1]) >= 9
    /\ \E i, j \in 1..Len(sched.order) : sched.order[i][2] # sched.order[j][2]
    /\ env.wrong_password_attempts = 1
    /\ env.room.escaped
    /\ metrics.success

----------------------------------------------------------------------------
(* Properties of the summaries *)

\* the turns of the episode that have ended with a summary
TurnsEnded ==
    IF sched.pc \in {"turn", "returned", "aborted"}
    THEN Len(sched.order) - 1
    ELSE Len(sched.order)

\* C31: the summaries of an episode are one per executed turn, each tagged
\* with the agent id and timestep of its turn, in the order the turns were
\* executed (by timestep, within a timestep in persona_configs order); the
\* summary of a turn is logged also when the turn has set room.escaped, and
\* an agent that got no turn because of the escape has no summary.
C31_OneSummaryPerTurn ==
    /\ [](/\ Len(metrics.summaries) = TurnsEnded
          /\ \A k \in 1..Len(metrics.summaries) :
                /\ metrics.summaries[k].step = sched.order[k][1]
                /\ metrics.summaries[k].agent_id = sched.order[k][2]
                /\ <<metrics.summaries[k].step, metrics.summaries[k].agent_id>>
                      = ExpectedTurn(k))
    /\ [][sched.pc = "returned"
            => /\ Len(metrics'.summaries) = Len(metrics.summaries) + 1
               /\ metrics'.summaries[Len(metrics'.summaries)] =
                     [step |-> sched.step,
                      agent_id |-> sched.order[Len(sched.order)][2],
                      summary |-> turn.summary]
               /\ SubSeq(metrics'.summaries, 1, Len(metrics.summaries))
                     = metrics.summaries]_vars

\* alice escaped in her second turn: her summary of that turn is the last
\* one, and bob has a summary for timestep 0 only
C31_Witness ==
    /\ sched.pc = "done"
    /\ env.room.escaped
    /\ runner.settings.max_steps = 2
    /\ Len(metrics.summaries) = 3
    /\ metrics.summaries[1].agent_id = "alice" /\ metrics.summaries[1].step = 0
    /\ metrics.summaries[2].agent_id = "bob" /\ metrics.summaries[2].step = 0
    /\ metrics.summaries[3].agent_id = "alice" /\ metrics.summaries[3].step = 1
    /\ metrics.summaries[3].summary = <<"I am done.">>

----------------------------------------------------------------------------
(* Properties of the room under the handlers *)

\* C32: a call of inspect_object, send_public, send_private or
\* update_reputation leaves the room (every visible flag and escaped), the
\* failed-password sets and wrong_password_attempts as they were; an
\* object's visible flag goes from false to true only in a try_password
\* call that gives the exact password of a lock whose reveal_objects lists
\* that object.
C32_OnlyTryPasswordChangesRoom ==
    [][/\ (last' # last /\ last'.op # "try_password")
          => /\ env'.room = env.room
             /\ env'.attrs = env.attrs
             /\ env'.wrong_password_attempts = env.wrong_password_attempts
       /\ \A x \in DOMAIN env.room.objects :
             (~env.room.objects[x].visible /\ env'.room.objects[x].visible)
             => /\ last'.op = "try_password"
                /\ last'.calls = last.calls + 1
                /\ HasLock(env.room, last'.object_id)
                /\ last'.password = LockOf(env.room, last'.object_id).password
                /\ Listed(LockOf(env.room, last'.object_id).reveal_objects, x)
       /\ DOMAIN env'.room.objects = DOMAIN env.room.objects]_vars

\* after the door was opened, which made the box visible, another handler
\* ran and the room stayed as the door's lock left it
C32_Witness ==
    /\ last.calls = 2
    /\ last.op \in {"inspect_object", "send_public", "send_private", "update_reputation"}
    /\ ~last.raised
    /\ env.room.objects["box"].visible
    /\ ~TwoStageRoom.objects["box"].visible
    /\ ~env.room.escaped

----------------------------------------------------------------------------
(* Properties of the failed-password mapping *)

RECURSIVE TotalFailed(_)
\* the number of (object, password) pairs recorded in a failed_passwords
\* mapping
TotalFailed(fp) ==
    IF DOMAIN fp = {} THEN 0
    ELSE LET o == CHOOSE x \in DOMAIN fp : TRUE IN
         Cardinality(fp[o]) + TotalFailed([x \in DOMAIN fp \ {o} |-> fp[x]])

\* C33: on a state that carries a failed_passwords mapping, empty at first,
\* wrong_password_attempts is the number of (object, password) pairs the
\* mapping records, only an object with a lock has a non-empty set, and
\* the password of a lock is never in that object's set.
C33_CounterMatchesFailed ==
    LET fp == env.attrs["failed_passwords"] IN
    /\ env.wrong_password_attempts = TotalFailed(fp)
    /\ \A o \in DOMAIN fp :
          /\ fp[o] # {} => HasLock(env.room, o)
          /\ HasLock(env.room, o) => LockOf(env.room, o).password \notin fp[o]

\* a wrong password was tried twice on the same lock: the second call was
\* skipped and the counter is still the one recorded pair
C33_Witness ==
    /\ last.calls = 2
    /\ last.op = "try_password"
    /\ last.text = SkipText
    /\ env.wrong_password_attempts = 1
    /\ TotalFailed(env.attrs["failed_passwords"]) = 1

----------------------------------------------------------------------------
(* Properties of the counts of an episode *)

\* the positions in the public chat of the messages agent a's turn of
\* timestep t put there: a's own messages and the notices about a
PutBy(a, t) ==
    LET chat == env.public_state.public_chat
        name == DictGet(env.agent_names, a, a)
    IN {i \in 1..Len(chat) :
          /\ chat[i].timestep = t
          /\ \/ chat[i].sender = name
             \/ chat[i].sender = "system" /\ chat[i].text[1] = name}

\* C34: in every state of an episode wrong_password_attempts is at most the
\* number of turns started so far, which is at most max_steps times the
\* number of agents, and one turn has put at most two messages in the
\* public chat: at most one message of the agent and at most one notice.
C34_CountsBoundedByTurns ==
    /\ env.wrong_password_attempts <= sched.turns_started
    /\ sched.turns_started <= runner.settings.max_steps * NumAgents
    /\ \A a \in AgentIds(runner), t \in 0..runner.settings.max_steps :
          LET chat == env.public_state.public_chat IN
          /\ Cardinality(PutBy(a, t)) <= 2
          /\ Cardinality({i \in PutBy(a, t) : chat[i].sender = "system"}) <= 1
          /\ Cardinality({i \in PutBy(a, t) : chat[i].sender # "system"}) <= 1
    /\ Len(env.public_state.public_chat) <= 2 * sched.turns_started

\* three turns were started, each counted a wrong password of its own or
\* was skipped, and the last one has put two messages in the chat after
\* asking for both tools more than once
C34_Witness ==
    /\ sched.turns_started = 3
    /\ env.wrong_password_attempts = 2
    /\ Cardinality(PutBy("carol", 0)) = 2
    /\ Len(env.public_state.public_chat) = 6
    /\ turn.iteration >= 4

----------------------------------------------------------------------------
(* Properties of faulting requests *)

\* the request for tool n was dispatched in this turn, it raised, and no
\* other request was dispatched since
FaultedInTurn(n) ==
    /\ sched.pc = "turn"
    /\ last.raised
    /\ last.op = n
    /\ n \in DOMAIN turn.handler_runs

\* C35: a request whose dispatch raises (the handler raises, the arguments
\* do not fit, or the name is not in the dispatch table) is marked as used
\* all the same; a later request for the same name in the same turn is
\* rejected as already used and no handler runs for it.
C35_FaultConsumesAllowance ==
    /\ [](\A n \in ToolNames \cup {"open_door"} :
             FaultedInTurn(n) => n \in turn.tools_used /\ turn.handler_runs[n] = 1)
    /\ [][\A n \in ToolNames \cup {"open_door"} :
            /\ (sched.pc = "turn" /\ last' # last /\ last'.raised /\ last'.op = n)
               => /\ n \notin turn.tools_used
                  /\ n \in turn'.tools_used
            /\ (FaultedInTurn(n) /\ OracleTool(n, NoArgs))
               => /\ env' = env
                  /\ last' = last
                  /\ turn'.handler_runs = turn.handler_runs
                  /\ turn'.tools_used = turn.tools_used
                  /\ turn'.messages = Appended(turn.messages, <<AlreadyUsedNotice(n)>>)]_vars

\* inspect_object was requested without its argument and again afterwards:
\* the second request was rejected, and nothing was ever inspected
C35_Witness ==
    /\ FaultedInTurn("inspect_object")
    /\ last.text = TypeError("inspect_object")
    /\ turn.iteration = 2
    /\ turn.messages.tail = <<AlreadyUsedNotice("inspect_object")>>
    /\ \A a \in DOMAIN env.agent_states : env.agent_states[a].private_observations = <<>>

----------------------------------------------------------------------------
(* Properties of a turn without update_reputation *)

\* reputation tracking is on and update_reputation was not requested in
\* the turn so far
NeverRated ==
    /\ runner.settings.reputation_enabled
    /\ "update_reputation" \notin turn.tools_used

\* C36: with reputation tracking on, in a turn in which update_reputation
\* is never requested every final statement of the oracle is answered with
\* the reminder and uses up one iteration, as every rejected duplicate
\* does; the turn returns only after exactly max_iterations oracle calls,
\* with the fallback summary and never with a statement of the oracle.
C36_FallbackWithoutRating ==
    /\ [][(sched.pc = "turn" /\ NeverRated)
            => /\ \A c \in SummaryInputs :
                    OracleAssistant(c)
                    => /\ sched'.pc = "turn"
                       /\ turn'.iteration = turn.iteration + 1
                       /\ turn'.summary = <<>>
                       /\ turn'.messages = Appended(turn.messages, <<ReputationReminder>>)
               /\ \A n \in turn.tools_used :
                    OracleTool(n, NoArgs)
                    => /\ sched'.pc = "turn"
                       /\ turn'.iteration = turn.iteration + 1
               /\ (sched'.pc = "returned" /\ "update_reputation" \notin turn'.tools_used)
                  => /\ turn.iteration = max_iterations
                     /\ turn'.iteration = max_iterations
                     /\ turn'.summary = FallbackSummary(Current.name)]_vars
    /\ []((sched.pc = "returned" /\ NeverRated)
            => /\ turn.iteration = max_iterations
               /\ turn.summary = FallbackSummary(Current.name)
               /\ \A c \in SummaryInputs : turn.summary # <<c>>)

\* the oracle's tenth reply was a final statement, like others before it:
\* the turn returned the fallback summary
C36_Witness ==
    /\ sched.pc = "returned"
    /\ NeverRated
    /\ turn.reply = "assistant"
    /\ turn.tools_used = {}
    /\ turn.iteration = 10
    /\ turn.summary = FallbackSummary(Current.name)

----------------------------------------------------------------------------
(* Properties of objects that are not visible *)

\* the state e with object o's visible flag set to v
WithVisible(e, o, v) == [e EXCEPT !.room.objects[o].visible = v]

\* two handler results that differ at most in object o's visible flag
SameButVisible(r1, r2, o) ==
    /\ r1.raised = r2.raised
    /\ r1.text = r2.text
    /\ WithVisible(r1.env, o, TRUE) = WithVisible(r2.env, o, TRUE)

\* C37: inspect_object and try_password do on an object whose visible flag
\* is false exactly what they do on the same object when it is visible; a
\* try_password call with the password of a lock on an object that is not
\* visible succeeds, reveals what the lock lists and sets escaped if the
\* lock says so.
C37_VisibilityNotChecked ==
    /\ [](\A a \in AgentIds(runner), o \in DOMAIN env.room.objects :
             /\ SameButVisible(inspect_object(WithVisible(env, o, FALSE), a, o),
                               inspect_object(WithVisible(env, o, TRUE), a, o), o)
             /\ \A p \in PasswordInputs :
                   SameButVisible(try_password(WithVisible(env, o, FALSE), a, o, p),
                                  try_password(WithVisible(env, o, TRUE), a, o, p), o))
    /\ [][\A a \in AgentIds(runner), o \in DOMAIN env.room.objects :
            (/\ CallTryPassword(a, o, LockOf(env.room, "box").password)
             /\ o = "box"
             /\ ~env.room.objects[o].visible)
            => /\ last'.text = <<LockOf(env.room, o).on_success_text>>
               /\ env'.room.escaped = (env.room.escaped \/ LockOf(env.room, o).escape)
               /\ \A x \in DOMAIN env.room.objects :
                     Listed(LockOf(env.room, o).reveal_objects, x)
                     => env'.room.objects[x].visible]_vars

----------------------------------------------------------------------------
(* Properties of repeated recipients *)

\* the entries of recipients that name agent b on state e
EntriesFor(e, rs, b) == {i \in 1..Len(rs) : NamesAgent(e, rs[i], b)}

\* C38: a send_private call appends exactly one message to the private
\* message log of an agent that one or more entries of recipients resolve
\* to, however many entries those are (the id repeated, in another letter
\* case, or together with the display name), and none to the log of an
\* agent no entry resolves to; the caller is treated like any other agent
\* and gets the message when an entry resolves to it.
C38_OneCopyPerRecipient ==
    [][\A a \in AgentIds(runner), rs \in RecipientInputs, m \in MessageInputs :
         CallSendPrivate(a, rs, m)
         => \A b \in AgentIds(runner) :
               LET log  == env.agent_states[b].private_messages
                   log1 == env'.agent_states[b].private_messages
               IN IF EntriesFor(env, rs, b) # {}
                  THEN log1 = Append(log, PrivateMessage(DictGet(env.agent_names, a, a),
                                                         env.public_state.timestep, <<m>>))
                  ELSE log1 = log]_vars

\* alice sent to herself and to an unknown name, then to bob under three
\* labels of which two resolve to bob: each of the two logs holds one
\* message
C38_Witness ==
    /\ last.calls = 2
    /\ last.op = "send_private"
    /\ last.agent_id = "alice"
    /\ last.recipients = <<"BOB", " bob ", "Bobby">>
    /\ Cardinality(EntriesFor(env, last.recipients, "bob")) = 2
    /\ Len(env.agent_states["bob"].private_messages) = 1
    /\ Len(env.agent_states["alice"].private_messages) = 1
    /\ env.agent_states["alice"].private_messages[1].sender = "alice"

----------------------------------------------------------------------------
(* Properties of a faulting update *)

\* entry i of items names an agent other than a and its score is not a
\* number: float(score) raises there
RaisesAt(e, a, items, i) ==
    /\ \E t \in DOMAIN e.agent_states \ {a} : NamesAgent(e, items[i][1], t)
    /\ ~NamesAgent(e, items[i][1], a)
    /\ items[i][2].kind = "str"
    /\ items[i][2].str # "2"

\* the entries of items that come before the first one that raises
Processed(e, a, items) ==
    {i \in 1..Len(items) : \A j \in 1..i : ~RaisesAt(e, a, items, j)}

====
